---- MODULE Spec2Model ----
(***************************************************************************)
(* Model of the quill-sql-editor request handlers and of the asynchronous  *)
(* parts of its two components.                                            *)
(*                                                                         *)
(*   src/src/app/api/execute-sql-new/route.ts   POST, applyWhereClause,   *)
(*                                              processAggregations       *)
(*   src/src/app/api/execute-sql/route.ts       POST (legacy rpc route)   *)
(*   src/src/app/api/schema/route.ts            GET                       *)
(*   src/src/app/components/SqlEditor.tsx       AI suggestions effect,    *)
(*                                              fetchAiSuggestions        *)
(*   src/unnamed/part_001                       AiChat: handleSendMessage,*)
(*                                              handleKeyPress            *)
(*                                                                         *)
(* Text is a sequence of one-character strings, so that the comment        *)
(* stripping, trimming and prefix tests are computed as the code computes  *)
(* them.  A JavaScript value that may be of several types is a tagged      *)
(* record (JsStr, JsNum, JsNull, JsUndef).  An absent string property is   *)
(* the value Undef.                                                        *)
(***************************************************************************)
EXTENDS Integers, Sequences, FiniteSets, TLC

(***************************************************************************)
(* Bounds of the model.                                                    *)
(***************************************************************************)
\* Most fragments a request text is put together from.
MaxFrags == 3
\* Most rows of the players table.
MaxRows == 2
\* Most entries of a projection.
MaxCols == 2
\* Most entries of an ORDER BY clause.
MaxOrders == 2
\* Largest number written in a LIMIT clause.
MaxLimit == 3

(***************************************************************************)
(* JavaScript values.                                                      *)
(***************************************************************************)
Undef == "<undefined>"

JsUndef == [t |-> "undefined", s |-> "", n |-> 0, d |-> 1]
JsNull == [t |-> "null", s |-> "", n |-> 0, d |-> 1]
JsStr(s) == [t |-> "string", s |-> s, n |-> 0, d |-> 1]
\* A finite number n/d in lowest terms (d = 1 for an integer).
JsNum(n) == [t |-> "number", s |-> "", n |-> n, d |-> 1]
\* The non-finite numbers: s is "Infinity", "-Infinity" or "NaN".
JsNonFinite(s) == [t |-> "number", s |-> s, n |-> 0, d |-> 1]

\* JavaScript truthiness of a value: undefined, null, '' and 0 are falsy.
Truthy(v) ==
    CASE v.t = "undefined" -> FALSE
      [] v.t = "null" -> FALSE
      [] v.t = "string" -> v.s # ""
      [] v.t = "number" -> v.s \in {"Infinity", "-Infinity"} \/ (v.s = "" /\ v.n # 0)
      [] OTHER -> TRUE

(***************************************************************************)
(* Text: String.prototype.toLowerCase, trim, startsWith, includes, and     *)
(* the two regular-expression replacements of the sanitizer.               *)
(***************************************************************************)
\* String.prototype.toLowerCase
toLowerCase(s) ==
    LET LowerChar(c) ==
            CASE c = "A" -> "a" [] c = "B" -> "b" [] c = "C" -> "c" [] c = "D" -> "d"
              [] c = "E" -> "e" [] c = "F" -> "f" [] c = "G" -> "g" [] c = "H" -> "h"
              [] c = "I" -> "i" [] c = "J" -> "j" [] c = "K" -> "k" [] c = "L" -> "l"
              [] c = "M" -> "m" [] c = "N" -> "n" [] c = "O" -> "o" [] c = "P" -> "p"
              [] c = "Q" -> "q" [] c = "R" -> "r" [] c = "S" -> "s" [] c = "T" -> "t"
              [] c = "U" -> "u" [] c = "V" -> "v" [] c = "W" -> "w" [] c = "X" -> "x"
              [] c = "Y" -> "y" [] c = "Z" -> "z"
              [] OTHER -> c
    IN  [i \in 1..Len(s) |-> LowerChar(s[i])]

\* The characters \s matches, among those the texts of this model hold.
IsSpace(c) == c \in {" ", "\n"}

startsWith(s, p) == Len(s) >= Len(p) /\ SubSeq(s, 1, Len(p)) = p

includes(s, p) ==
    \E i \in 1..(Len(s) - Len(p) + 1) : SubSeq(s, i, i + Len(p) - 1) = p

\* Lines 24-27: const cleanSql = sql.replace(/--.*$/gm, '')
\*                                 .replace(/\/\*[\s\S]*?\*\//g, '').trim()
\* The first replacement removes each "--" up to the end of its line (the line
\* terminator stays); the second removes each "/*" up to and including the
\* first "*/" that starts after it, and leaves an unclosed "/*" in place.
cleanSqlOf(sql) ==
    LET At2(s, i, a, b) == i + 1 <= Len(s) /\ s[i] = a /\ s[i + 1] = b
        Min(S) == CHOOSE x \in S : \A y \in S : x <= y
        Max(S) == CHOOSE x \in S : \A y \in S : x >= y
        \* The first replacement, one match at a time: the leftmost "--" and
        \* the rest of its line go, the text from the line terminator on is
        \* searched again.
        RECURSIVE StripLine(_)
        StripLine(s) ==
            LET dashes == {i \in 1..Len(s) : At2(s, i, "-", "-")}
                ends == {j \in Min(dashes)..Len(s) : s[j] = "\n"}
            IN  IF dashes = {} THEN s
                ELSE SubSeq(s, 1, Min(dashes) - 1)
                     \o (IF ends = {} THEN <<>>
                         ELSE StripLine(SubSeq(s, Min(ends), Len(s))))
        \* The second replacement, one match at a time: the leftmost "/*"
        \* that has a "*/" starting after it goes up to and including the
        \* first such "*/", the text after it is searched again.
        RECURSIVE StripBlock(_)
        StripBlock(s) ==
            LET Closes(i) == {j \in (i + 2)..Len(s) : At2(s, j, "*", "/")}
                opens == {i \in 1..Len(s) : At2(s, i, "/", "*") /\ Closes(i) # {}}
            IN  IF opens = {} THEN s
                ELSE SubSeq(s, 1, Min(opens) - 1)
                     \o StripBlock(SubSeq(s, Min(Closes(Min(opens))) + 2, Len(s)))
        Trim(s) ==
            LET inked == {i \in 1..Len(s) : ~IsSpace(s[i])}
            IN  IF inked = {} THEN <<>> ELSE SubSeq(s, Min(inked), Max(inked))
    IN  Trim(StripBlock(StripLine(sql)))

SELECT_KW == <<"s", "e", "l", "e", "c", "t">>

\* cleanSql.toLowerCase().startsWith('select')
IsSelectText(clean) == startsWith(toLowerCase(clean), SELECT_KW)

(***************************************************************************)
(* The AST of node-sql-parser, as far as the handler reads it.             *)
(*   statement = [type, from, columns, where, orderby, limit]              *)
(*   from      = [shape : "null" | "array" | "object", entries]            *)
(*   columns   = [present, list], an entry is [expr, as]                   *)
(*   where     = [present, type, operator, left, right, name, args]        *)
(*   orderby   = [present, list], an entry is [column, type]               *)
(*   limit     = [present, shape, items, v]  (shape of statement.limit.value)*)
(***************************************************************************)
PERMITTED_TABLE == "players"

\* a || b on string properties: a when it is a non-empty string, else b.
OrStr(a, b) == IF a # Undef /\ a # "" THEN a ELSE b

\* Lines 60-81: the table name of the first FROM entry, field table or name.
tableNameOf(from) ==
    IF from.shape = "null" THEN Undef
    ELSE IF from.shape = "array"
         THEN IF from.entries = <<>> THEN Undef
              ELSE IF from.entries[1].obj
                   THEN OrStr(from.entries[1].table, from.entries[1].name)
                   ELSE Undef
    ELSE OrStr(from.entries[1].table, from.entries[1].name)

\* A table check that only asks for some table name.
TableRejectedIfMissing(tableName) == tableName = Undef \/ tableName = ""

\* Line 83: !tableName || tableName !== 'players'
TableRejected(tableName) ==
    tableName = Undef \/ tableName = "" \/ tableName # PERMITTED_TABLE

(***************************************************************************)
(* The builder plan: the sequence of calls made on the query builder.      *)
(***************************************************************************)
Call(op, column, value, ascending, items) ==
    [op |-> op, column |-> column, value |-> value, ascending |-> ascending,
     items |-> items, text |-> <<>>]

\* One item of the projection string: '<column> as <alias>', '<column>' or '*'.
Item(column, as) == [column |-> column, as |-> as]

FromCall(t) == Call("from", t, JsUndef, TRUE, <<>>)
SelectCall(items) == Call("select", "", JsUndef, TRUE, items)
FilterCall(op, column, value) == Call(op, column, value, TRUE, <<>>)
OrderCall(column, asc) == Call("order", column, JsUndef, asc, <<>>)
ExecuteCall == Call("execute", "", JsUndef, TRUE, <<>>)
\* select('*', { count: 'exact', head: true }) of the legacy route
CountSelectCall == Call("select", "count-exact-head", JsUndef, TRUE, <<Item("*", Undef)>>)

FilterOps == {"eq", "neq", "gt", "gte", "lt", "lte", "is", "not"}

Star == Item("*", Undef)

\* Lines 96 and 162: columns.some(col => col.expr.type === 'aggr_func')
hasAggregations(list) == \E i \in 1..Len(list) : list[i].expr.type = "aggr_func"

\* Lines 103-107, the map callback; `${col.expr.column} as ${col.as}` prints
\* an undefined column as the text 'undefined'.
ColumnItem(col) ==
    IF col.as # Undef /\ col.as # ""
    THEN Item(IF col.expr.column = Undef THEN "undefined" ELSE col.expr.column,
              col.as)
    ELSE IF col.expr.type = "column_ref" THEN Item(col.expr.column, Undef)
    ELSE Star

\* Line 107: .filter(col => col !== '*')
RECURSIVE DropStars(_)
DropStars(s) ==
    IF s = <<>> THEN <<>>
    ELSE IF Head(s) # Star THEN <<Head(s)>> \o DropStars(Tail(s))
    ELSE DropStars(Tail(s))

\* A projection that pushes the columns down even when one is an aggregate.
ProjectionPushedDown(columns) ==
    IF ~columns.present THEN <<Star>>
    ELSE LET mapped == [i \in 1..Len(columns.list) |-> ColumnItem(columns.list[i])]
             kept == DropStars(mapped)
         IN  IF Len(kept) > 0 THEN kept ELSE <<Star>>

\* Lines 93-117: the projection handed to queryBuilder.select.
Projection(columns) ==
    IF ~columns.present THEN <<Star>>
    ELSE IF hasAggregations(columns.list) THEN <<Star>>
    ELSE LET mapped == [i \in 1..Len(columns.list) |-> ColumnItem(columns.list[i])]
             kept == DropStars(mapped)
         IN  IF Len(kept) > 0 THEN kept ELSE <<Star>>

\* A test that takes a numeric literal for a string literal as well.
IsLiteral(r) == r.type \in {"string", "single_quote_string", "number"}

\* Lines 218 and 238: right.type === 'string' || right.type === 'single_quote_string'
IsStringLiteral(r) == r.type \in {"string", "single_quote_string"}

\* Lines 213-251: the filter calls applyWhereClause adds to the builder.
applyWhereClause(w) ==
    IF w.type = "binary_expr"
    THEN CASE w.operator = "=" /\ w.left.type = "column_ref" /\ IsStringLiteral(w.right)
                  -> <<FilterCall("eq", w.left.column, w.right.value)>>
           [] w.operator = ">" /\ w.left.type = "column_ref" /\ w.right.type = "number"
                  -> <<FilterCall("gt", w.left.column, w.right.value)>>
           [] w.operator = "<" /\ w.left.type = "column_ref" /\ w.right.type = "number"
                  -> <<FilterCall("lt", w.left.column, w.right.value)>>
           [] w.operator = ">=" /\ w.left.type = "column_ref" /\ w.right.type = "number"
                  -> <<FilterCall("gte", w.left.column, w.right.value)>>
           [] w.operator = "<=" /\ w.left.type = "column_ref" /\ w.right.type = "number"
                  -> <<FilterCall("lte", w.left.column, w.right.value)>>
           [] w.operator = "!=" /\ w.left.type = "column_ref" /\ IsStringLiteral(w.right)
                  -> <<FilterCall("neq", w.left.column, w.right.value)>>
           [] OTHER -> <<>>
    ELSE IF w.type = "function"
    THEN IF w.name = "IS" /\ Len(w.args) >= 2 /\ w.args[2].value = JsStr("NULL")
         THEN <<FilterCall("is", w.args[1].column, JsNull)>>
         ELSE IF w.name = "IS NOT" /\ Len(w.args) >= 2 /\ w.args[2].value = JsStr("NULL")
         THEN <<FilterCall("not", w.args[1].column, JsNull)>>
         ELSE <<>>
    ELSE <<>>

\* Lines 119-122
WhereCalls(w) == IF w.present THEN applyWhereClause(w) ELSE <<>>

\* An ORDER BY handling that stops after the first entry.
OrderCallsFirstOnly(o) ==
    IF o.present /\ o.list # <<>>
    THEN <<OrderCall(o.list[1].column, o.list[1].type # "DESC")>>
    ELSE <<>>

\* Lines 124-131
OrderCalls(o) ==
    IF o.present
    THEN [i \in 1..Len(o.list) |-> OrderCall(o.list[i].column, o.list[i].type # "DESC")]
    ELSE <<>>

LIMIT_FALLBACK == 10

\* Lines 136-148: the three encodings of statement.limit.value, each with
\* its || 10.
limitValueOf(l) ==
    LET OrTen(v) == IF Truthy(v) THEN v ELSE JsNum(LIMIT_FALLBACK)
        \* An object { value: n } met where a number is expected.
        JsObj(n) == [t |-> "object", s |-> "", n |-> n, d |-> 1]
    IN  IF l.shape = "array"
        THEN IF l.items = <<>> THEN JsNum(LIMIT_FALLBACK) ELSE OrTen(l.items[1])
        ELSE IF l.shape = "object" /\ Truthy(l.v) THEN l.v
        ELSE IF l.shape = "object" THEN JsObj(l.v.n)
        ELSE OrTen(l.v)

\* Lines 133-152
LimitCalls(l) ==
    IF l.present THEN <<Call("limit", "", limitValueOf(l), TRUE, <<>>)>> ELSE <<>>

\* A plan that is executed again after its first execution.
BuildPlanExecutedTwice(st) ==
    <<FromCall(PERMITTED_TABLE), SelectCall(Projection(st.columns))>>
    \o WhereCalls(st.where) \o OrderCalls(st.orderby) \o LimitCalls(st.limit)
    \o <<ExecuteCall, ExecuteCall>>

\* A plan that sets the limit before the projection.
BuildPlanLimitFirst(st) ==
    <<FromCall(PERMITTED_TABLE)>> \o LimitCalls(st.limit)
    \o <<SelectCall(Projection(st.columns))>>
    \o WhereCalls(st.where) \o OrderCalls(st.orderby) \o <<ExecuteCall>>

\* Lines 90-155: every call made on the builder, the execute step included.
BuildPlan(st) ==
    <<FromCall(PERMITTED_TABLE), SelectCall(Projection(st.columns))>>
    \o WhereCalls(st.where) \o OrderCalls(st.orderby) \o LimitCalls(st.limit)
    \o <<ExecuteCall>>

(***************************************************************************)
(* Numbers: finite values are fractions n/d in lowest terms, d > 0.        *)
(***************************************************************************)
Frac(n, d) ==
    LET RECURSIVE Gcd(_, _)
        Gcd(a, b) == IF b = 0 THEN a ELSE Gcd(b, a % b)
        g == Gcd(IF n < 0 THEN -n ELSE n, d)
    IN  [t |-> "number", s |-> "", n |-> n \div g, d |-> d \div g]

IsFinite(v) == v.t = "number" /\ v.s = ""
NaN == JsNonFinite("NaN")

\* A sum that stops after the first value.
ReduceOfFirst(vals) == IF vals = <<>> THEN JsNum(0) ELSE Head(vals)

\* values.reduce((sum, val) => sum + val, 0) of lines 270 and 282.  In
\* sum + val null counts as 0 and undefined gives NaN; a string operand gives
\* a concatenated string, kept here as a marker since no input set of this
\* model aggregates a text column.
Reduce(vals) ==
    LET Plus(a, b) ==
            IF IsFinite(a) /\ IsFinite(b) THEN Frac(a.n * b.d + b.n * a.d, a.d * b.d)
            ELSE IF a.t = "string" \/ b.t = "string" THEN JsStr("<concatenation>")
            ELSE IF IsFinite(a) /\ b = JsNull THEN a
            ELSE IF a = JsNull /\ IsFinite(b) THEN b
            ELSE NaN
        RECURSIVE SumFrom(_, _)
        SumFrom(acc, rest) ==
            IF rest = <<>> THEN acc ELSE SumFrom(Plus(acc, Head(rest)), Tail(rest))
    IN  SumFrom(JsNum(0), vals)

\* x / k for a positive integer k
DivInt(x, k) == IF IsFinite(x) THEN Frac(x.n, x.d * k) ELSE NaN

\* A rounding that cuts the digits after the second decimal place.
Round2Truncated(x) ==
    IF IsFinite(x) THEN Frac((100 * x.n) \div x.d, 100) ELSE NaN

\* Math.round(x * 100) / 100; Math.round rounds half up.
Round2(x) ==
    IF IsFinite(x) THEN Frac((200 * x.n + x.d) \div (2 * x.d), 100) ELSE NaN

Less(a, b) == a.n * b.d < b.n * a.d

\* Math.max(...values): -Infinity for no value, NaN when a value is no number.
RECURSIVE MaxOf(_)
MaxOf(vals) ==
    IF vals = <<>> THEN JsNonFinite("-Infinity")
    ELSE LET r == MaxOf(Tail(vals))
             h == Head(vals)
         IN  IF ~IsFinite(h) \/ r = NaN THEN NaN
             ELSE IF r.s = "-Infinity" \/ Less(r, h) THEN h ELSE r

\* Math.min(...values)
RECURSIVE MinOf(_)
MinOf(vals) ==
    IF vals = <<>> THEN JsNonFinite("Infinity")
    ELSE LET r == MinOf(Tail(vals))
             h == Head(vals)
         IN  IF ~IsFinite(h) \/ r = NaN THEN NaN
             ELSE IF r.s = "Infinity" \/ Less(h, r) THEN h ELSE r

(***************************************************************************)
(* processAggregations (lines 254-307).                                    *)
(***************************************************************************)
\* col.expr.name.toLowerCase()
LowerName(n) ==
    CASE n \in {"COUNT", "Count", "count"} -> "count"
      [] n \in {"AVG", "Avg", "avg"} -> "avg"
      [] n \in {"SUM", "Sum", "sum"} -> "sum"
      [] n \in {"MAX", "Max", "max"} -> "max"
      [] n \in {"MIN", "Min", "min"} -> "min"
      [] OTHER -> n

\* const alias = col.as || `${funcName}_value`
OutputKey(col) ==
    LET f == LowerName(col.expr.name)
        ValueKey ==
            CASE f = "count" -> "count_value"
              [] f = "avg" -> "avg_value"
              [] f = "sum" -> "sum_value"
              [] f = "max" -> "max_value"
              [] f = "min" -> "min_value"
              [] OTHER -> "other_value"
    IN  IF col.as # Undef /\ col.as # "" THEN col.as ELSE ValueKey

\* row[columnName]
Field(row, c) == IF c \in DOMAIN row THEN row[c] ELSE JsUndef

\* The values of the column with its nulls left in.
ColumnValuesKeepingNulls(data, c) == [i \in 1..Len(data) |-> Field(data[i], c)]

\* data.map(row => row[columnName]).filter(val => val !== null)
ColumnValues(data, c) ==
    LET RECURSIVE NonNull(_)
        NonNull(vals) ==
            IF vals = <<>> THEN <<>>
            ELSE IF Head(vals) # JsNull THEN <<Head(vals)>> \o NonNull(Tail(vals))
            ELSE NonNull(Tail(vals))
    IN  NonNull([i \in 1..Len(data) |-> Field(data[i], c)])

\* A test that takes every column name for resolved.
ResolvedAlways(c) == TRUE

\* if (columnName): the column could be read from the AST.
Resolved(c) == c # Undef /\ c # ""

\* A COUNT that leaves out the rows whose draft_pick is null, as
\* COUNT(draft_pick) would.
CountValueNonNull(data) == JsNum(Len(ColumnValues(data, "draft_pick")))

\* Line 263: result[alias] = data.length
CountValue(data) == JsNum(Len(data))

\* The value the forEach body assigns for one aggregate column.
AggregateValue(col, data) ==
    LET f == LowerName(col.expr.name)
        c == col.expr.argColumn
        values == ColumnValues(data, c)
    IN  CASE f = "count" -> CountValue(data)
          [] f = "avg" ->
               IF ~Resolved(c) THEN JsStr("AVG function detected - column not found")
               ELSE IF Len(values) > 0 THEN Round2(DivInt(Reduce(values), Len(values)))
               ELSE JsNum(0)
          [] f = "sum" ->
               IF ~Resolved(c) THEN JsStr("SUM function detected - column not found")
               ELSE Reduce(values)
          [] f = "max" ->
               IF ~Resolved(c) THEN JsStr("MAX function detected - column not found")
               ELSE MaxOf(values)
          [] OTHER ->
               IF ~Resolved(c) THEN JsStr("MIN function detected - column not found")
               ELSE MinOf(values)

\* result[alias] = value
SetKey(row, k, v) == [x \in DOMAIN row \cup {k} |-> IF x = k THEN v ELSE row[x]]

EmptyRow == [x \in {} |-> JsUndef]

\* Lines 254-307: columns.forEach over the projection; the body assigns
\* result[alias] for COUNT(*) and for AVG, SUM, MAX and MIN.
processAggregations(list, data) ==
    LET Assigns(col) ==
            /\ col.expr.type = "aggr_func"
            /\ \/ LowerName(col.expr.name) = "count" /\ col.expr.argValue = "*"
               \/ LowerName(col.expr.name) \in {"avg", "sum", "max", "min"}
        RECURSIVE AggregateFrom(_, _)
        AggregateFrom(result, rest) ==
            IF rest = <<>> THEN result
            ELSE IF Assigns(Head(rest))
                 THEN AggregateFrom(SetKey(result, OutputKey(Head(rest)),
                                           AggregateValue(Head(rest), data)),
                                    Tail(rest))
            ELSE AggregateFrom(result, Tail(rest))
    IN  AggregateFrom(EmptyRow, list)

(***************************************************************************)
(* The remote store: a table of rows and the execution of a builder plan.  *)
(* A row is a function from column names to values.                        *)
(***************************************************************************)
TableColumns == {"team", "age", "rating", "draft_pick", "league"}

NoError == [present |-> FALSE, isError |-> FALSE, message |-> Undef,
            error_description |-> Undef]
StoreError(isError, message, description) ==
    [present |-> TRUE, isError |-> isError, message |-> message,
     error_description |-> description]

\* { data, error, count }; dataNull tells a null data from an empty array.
Reply(error, data, dataNull, count) ==
    [error |-> error, data |-> data, dataNull |-> dataNull, count |-> count]
FailedReply(error) == Reply(error, <<>>, TRUE, JsNull)

SelectOp(calls, op) == SelectSeq(calls, LAMBDA c : c.op = op)
FiltersOf(calls) == SelectSeq(calls, LAMBDA c : c.op \in FilterOps)

\* The key under which a projection item appears in a returned row.
ItemKey(it) == IF it.as # Undef THEN it.as ELSE it.column

\* The rows a plan yields over a table: filter, then sort, then limit, then
\* project.  A comparison with null never matches; nulls sort as the largest
\* value (last when ascending, first when descending); the sort is stable.
StoreRows(tbl, calls) ==
    LET Passes(row, c) ==
            LET v == row[c.column]
            IN  CASE c.op = "eq" -> v # JsNull /\ v = c.value
                  [] c.op = "neq" -> v # JsNull /\ v # c.value
                  [] c.op = "gt" -> IsFinite(v) /\ IsFinite(c.value) /\ Less(c.value, v)
                  [] c.op = "gte" -> IsFinite(v) /\ IsFinite(c.value) /\ ~Less(v, c.value)
                  [] c.op = "lt" -> IsFinite(v) /\ IsFinite(c.value) /\ Less(v, c.value)
                  [] c.op = "lte" -> IsFinite(v) /\ IsFinite(c.value) /\ ~Less(c.value, v)
                  [] c.op = "is" -> v = JsNull
                  [] c.op = "not" -> v # JsNull
                  [] OTHER -> TRUE
        \* Collation of the text values the tables of this model hold.
        StrRank(x) == CASE x = "Bulls" -> 1 [] x = "Lakers" -> 2 [] OTHER -> 0
        ValueBefore(a, b) ==
            IF a = JsNull THEN FALSE
            ELSE IF b = JsNull THEN TRUE
            ELSE IF a.t = "string" THEN StrRank(a.s) < StrRank(b.s)
            ELSE Less(a, b)
        RECURSIVE RowBefore(_, _, _)
        RowBefore(r1, r2, orders) ==
            IF orders = <<>> THEN FALSE
            ELSE LET o == Head(orders)
                     a == r1[o.column]
                     b == r2[o.column]
                 IN  IF a = b THEN RowBefore(r1, r2, Tail(orders))
                     ELSE IF o.ascending THEN ValueBefore(a, b) ELSE ValueBefore(b, a)
        RECURSIVE InsertRow(_, _, _)
        InsertRow(r, sorted, orders) ==
            IF sorted = <<>> THEN <<r>>
            ELSE IF RowBefore(r, Head(sorted), orders) THEN <<r>> \o sorted
            ELSE <<Head(sorted)>> \o InsertRow(r, Tail(sorted), orders)
        RECURSIVE SortRows(_, _)
        SortRows(rows, orders) ==
            IF rows = <<>> THEN <<>>
            ELSE InsertRow(rows[Len(rows)],
                           SortRows(SubSeq(rows, 1, Len(rows) - 1), orders), orders)
        Take(rows, k) == SubSeq(rows, 1, IF k < Len(rows) THEN k ELSE Len(rows))
        ProjectRow(row, items) ==
            IF \E i \in 1..Len(items) : items[i] = Star THEN row
            ELSE [k \in {ItemKey(items[i]) : i \in 1..Len(items)} |->
                    row[items[CHOOSE i \in 1..Len(items) : ItemKey(items[i]) = k].column]]
        filters == FiltersOf(calls)
        limits == SelectOp(calls, "limit")
        selects == SelectOp(calls, "select")
        kept == SelectSeq(tbl, LAMBDA r : \A i \in 1..Len(filters) : Passes(r, filters[i]))
        sorted == SortRows(kept, SelectOp(calls, "order"))
        cut == IF limits = <<>> THEN sorted
               ELSE Take(sorted, limits[Len(limits)].value.n)
        items == IF selects = <<>> THEN <<Star>> ELSE selects[Len(selects)].items
    IN  [i \in 1..Len(cut) |-> ProjectRow(cut[i], items)]

TRANSPORT_FAILURE == "store failure"

\* The errors a store call can come back with whatever the plan: a plain
\* object carrying message, one carrying only error_description, one carrying
\* neither, and an Error instance.
TransportErrors ==
    {StoreError(FALSE, TRANSPORT_FAILURE, Undef),
     StoreError(FALSE, Undef, "store failure description"),
     StoreError(FALSE, Undef, Undef),
     StoreError(TRUE, TRANSPORT_FAILURE, Undef)}

\* Every { data, error } the execute step can return for a plan, when it can
\* fail with any of the errors whatever the plan.  The store rejects a plan
\* that names an unknown table or column or a limit that is no non-negative
\* integer.
StoreRepliesWith(errors, tbl, calls) ==
    LET PlanAccepted ==
            \A i \in 1..Len(calls) :
               LET c == calls[i]
               IN  /\ c.op = "from" => c.column = PERMITTED_TABLE
                   /\ c.op \in FilterOps \cup {"order"} => c.column \in TableColumns
                   /\ c.op = "limit" =>
                        IsFinite(c.value) /\ c.value.d = 1 /\ c.value.n >= 0
                   /\ c.op = "select" =>
                        \A j \in 1..Len(c.items) :
                           c.items[j] = Star \/ c.items[j].column \in TableColumns
    IN  {FailedReply(e) : e \in errors}
        \cup (IF ~PlanAccepted
              THEN {FailedReply(StoreError(FALSE, "plan rejected by the store", Undef))}
              ELSE IF \E i \in 1..Len(calls) : calls[i] = CountSelectCall
              THEN {Reply(NoError, <<>>, TRUE, JsNum(Len(StoreRows(tbl, calls))))}
              ELSE {Reply(NoError, StoreRows(tbl, calls), FALSE, JsNull)})

StoreReplies(tbl, calls) == StoreRepliesWith(TransportErrors, tbl, calls)

(***************************************************************************)
(* Requests and responses.                                                 *)
(*   body     = [json, type, text]: whether the body is JSON at all, the   *)
(*              JavaScript type of its sql field, and the text of a string *)
(*   response = [status, keys, error, data, totalRows, originalQuery];     *)
(*              keys is the set of fields the JSON body carries            *)
(***************************************************************************)
Body(json, type, text) == [json |-> json, type |-> type, text |-> text]

\* An error message; arg is the text a template puts into it.
\* and detail the message of the error it reports.
Msg(text) == [text |-> text, detail |-> "", arg |-> <<>>]
MsgWith(text, arg) == [text |-> text, detail |-> "", arg |-> arg]

Response(status, keys, error, data, totalRows, originalQuery) ==
    [status |-> status, keys |-> keys, error |-> error, data |-> data,
     totalRows |-> totalRows, originalQuery |-> originalQuery]

NoResponse == Response(0, {}, Msg(""), <<>>, 0, <<>>)

ErrorResponse(status, error) == Response(status, {"error"}, error, <<>>, 0, <<>>)

\* NextResponse.json({ data, totalRows, originalQuery }), status 200
SuccessResponse(data, totalRows, sql) ==
    Response(200, {"data", "totalRows", "originalQuery"}, Msg(""), data,
             totalRows, sql)

JsError(message) == StoreError(TRUE, message, Undef)

SQL_REQUIRED == "SQL query is required"
ONLY_SELECT_RECEIVED ==
    "Only SELECT queries are currently supported for security reasons. Received: "
ONLY_SELECT == "Only SELECT queries are supported"
ONLY_PLAYERS == "Only queries on the \"players\" table are supported"
PARSING_FAILED == "SQL parsing failed"
EXECUTE_FAILED == "Failed to execute SQL query"
BAD_JSON == "Unexpected token in JSON"
PARSER_DIAGNOSTIC == "parser diagnostic"
TYPE_ERROR == "Cannot read properties of undefined (reading 'type')"

\* An input check that leaves out the empty string.
InvalidSqlTypeOnly(b) == b.type # "string"

\* Line 16: !sql || typeof sql !== 'string'
InvalidSql(b) == b.type # "string" \/ b.text = <<>>

\* Lines 177-186: the catch of the inner try.
InnerCatch(err, sql) ==
    Response(400, {"error", "originalQuery"},
             Msg(IF err.isError THEN err.message ELSE PARSING_FAILED),
             <<>>, 0, sql)

\* Lines 188-209: the catch of the outer try.
OuterCatch(err) ==
    ErrorResponse(500,
        Msg(IF err.isError THEN err.message
            ELSE IF Resolved(err.message) THEN err.message
            ELSE IF Resolved(err.error_description) THEN err.error_description
            ELSE EXECUTE_FAILED))

\* What parser.astify returns: it throws, or yields one statement or an array
\* of statements.
ParseFailure == [ok |-> FALSE, isArray |-> FALSE, stmts |-> <<>>]
ParsedOne(st) == [ok |-> TRUE, isArray |-> FALSE, stmts |-> <<st>>]
ParsedMany(sts) == [ok |-> TRUE, isArray |-> TRUE, stmts |-> sts]

NotCalled == [called |-> FALSE, text |-> <<>>, answer |-> ParseFailure]
CalledWith(text, ast) == [called |-> TRUE, text |-> text, answer |-> ast]

(***************************************************************************)
(* AST constructors.                                                       *)
(***************************************************************************)
Entry(table, name) == [obj |-> TRUE, table |-> table, name |-> name]
FromArray(entries) == [shape |-> "array", entries |-> entries]
FromObject(entry) == [shape |-> "object", entries |-> <<entry>>]
FromNull == [shape |-> "null", entries |-> <<>>]

Expr(type, column, name, argValue, argColumn) ==
    [type |-> type, column |-> column, name |-> name, argValue |-> argValue,
     argColumn |-> argColumn]
ColumnRef(column, as) == [expr |-> Expr("column_ref", column, Undef, Undef, Undef), as |-> as]
AggrFunc(name, argValue, argColumn, as) ==
    [expr |-> Expr("aggr_func", Undef, name, argValue, argColumn), as |-> as]

Columns(list) == [present |-> TRUE, list |-> list]
NoColumns == [present |-> FALSE, list |-> <<>>]

Operand(type, column, value) == [type |-> type, column |-> column, value |-> value]
NoOperand == Operand(Undef, Undef, JsUndef)
NoWhere == [present |-> FALSE, type |-> Undef, operator |-> Undef, left |-> NoOperand,
            right |-> NoOperand, name |-> Undef, args |-> <<>>]
\* A WHERE node of type 'function': IS / IS NOT with its argument list.
FunctionExpr(name, args) ==
    [present |-> TRUE, type |-> "function", operator |-> Undef, left |-> NoOperand,
     right |-> NoOperand, name |-> name, args |-> args]
BinaryExpr(operator, left, right) ==
    [present |-> TRUE, type |-> "binary_expr", operator |-> operator, left |-> left,
     right |-> right, name |-> Undef, args |-> <<>>]

NoOrderBy == [present |-> FALSE, list |-> <<>>]
\* statement.orderby: entries [column, type], column being order.expr.column
\* and type the marker 'ASC' or 'DESC', or absent.
OrderBy(list) == [present |-> TRUE, list |-> list]

NoLimit == [present |-> FALSE, shape |-> "prim", items |-> <<>>, v |-> JsUndef]
\* statement.limit by the shape of statement.limit.value: "array" with the
\* value fields of its elements, "object" with its value field, or "prim".
Limit(shape, items, v) == [present |-> TRUE, shape |-> shape, items |-> items, v |-> v]

Statement(type, from, columns, where, orderby, limit) ==
    [type |-> type, from |-> from, columns |-> columns, where |-> where,
     orderby |-> orderby, limit |-> limit]

NoStatement == Statement(Undef, FromNull, NoColumns, NoWhere, NoOrderBy, NoLimit)

(***************************************************************************)
(* State.                                                                  *)
(*   route        the handler serving the current request                  *)
(*   pc           "idle", "awaiting" (the await of the store) or "done"    *)
(*   body         the request body                                         *)
(*   parserInput  the text handed to parser.astify, if it was called, and  *)
(*                what the parser answered                                 *)
(*   statement    the statement the handler works on                       *)
(*   calls        the calls made on the store client for this request      *)
(*   reply        what the store answered                                  *)
(*   response     the response of the handler                              *)
(*   table        the rows of the players table in the store               *)
(*   stages       the steps of the handler that ran, in order              *)
(*   inFlight     the other requests the server is handling: what each of  *)
(*                them holds while it is suspended at an await             *)
(*   editor       the state of the SqlEditor component that the AI         *)
(*                suggestions read and write                               *)
(*   chat         the state of the AiChat component                        *)
(***************************************************************************)
VARIABLES route, pc, body, parserInput, statement, calls, reply, response,
          table, stages, inFlight, editor, chat

vars == <<route, pc, body, parserInput, statement, calls, reply, response,
          table, stages, inFlight, editor, chat>>

NoBody == Body(FALSE, "undefined", <<>>)
NoReply == Reply(NoError, <<>>, TRUE, JsNull)

\* Line 51: const statement = Array.isArray(ast) ? ast[0] : ast
StatementUndefined(ast) == ast.isArray /\ ast.stmts = <<>>

Outcome(nextPc, resp, pin, st, cls, stg) ==
    [pc |-> nextPc, response |-> resp, parserInput |-> pin, statement |-> st,
     calls |-> cls, stages |-> stg]

\* An inner try that works on the last statement of the parser's answer.
PostParseOfLast(b, cleanSql, ast) ==
    LET st == IF StatementUndefined(ast) THEN NoStatement ELSE ast.stmts[Len(ast.stmts)]
    IN  IF ~ast.ok
        THEN Outcome("done", InnerCatch(JsError(PARSER_DIAGNOSTIC), b.text),
                     CalledWith(cleanSql, ast), NoStatement, <<>>,
                     <<"sanitize", "parse", "respond">>)
        ELSE IF StatementUndefined(ast)
        THEN Outcome("done", InnerCatch(JsError(TYPE_ERROR), b.text),
                     CalledWith(cleanSql, ast), NoStatement, <<>>,
                     <<"sanitize", "parse", "respond">>)
        ELSE IF st.type # "select"
        THEN Outcome("done", ErrorResponse(400, Msg(ONLY_SELECT)),
                     CalledWith(cleanSql, ast), st, <<>>,
                     <<"sanitize", "parse", "validate", "respond">>)
        ELSE IF TableRejected(tableNameOf(st.from))
        THEN Outcome("done", ErrorResponse(400, Msg(ONLY_PLAYERS)),
                     CalledWith(cleanSql, ast), st, <<>>,
                     <<"sanitize", "parse", "validate", "respond">>)
        ELSE Outcome("awaiting", NoResponse, CalledWith(cleanSql, ast), st, BuildPlan(st),
                     <<"sanitize", "parse", "validate", "build", "execute">>)

\* Lines 40-155 of execute-sql-new: the inner try, from the call of the parser
\* to the await of the store, for the cleaned text and the parser's answer.
PostParse(b, cleanSql, ast) ==
    LET st == IF StatementUndefined(ast) THEN NoStatement ELSE ast.stmts[1]
    IN  IF ~ast.ok
        THEN Outcome("done", InnerCatch(JsError(PARSER_DIAGNOSTIC), b.text),
                     CalledWith(cleanSql, ast), NoStatement, <<>>,
                     <<"sanitize", "parse", "respond">>)
        ELSE IF StatementUndefined(ast)
        THEN Outcome("done", InnerCatch(JsError(TYPE_ERROR), b.text),
                     CalledWith(cleanSql, ast), NoStatement, <<>>,
                     <<"sanitize", "parse", "respond">>)
        ELSE IF st.type # "select"
        THEN Outcome("done", ErrorResponse(400, Msg(ONLY_SELECT)),
                     CalledWith(cleanSql, ast), st, <<>>,
                     <<"sanitize", "parse", "validate", "respond">>)
        ELSE IF TableRejected(tableNameOf(st.from))
        THEN Outcome("done", ErrorResponse(400, Msg(ONLY_PLAYERS)),
                     CalledWith(cleanSql, ast), st, <<>>,
                     <<"sanitize", "parse", "validate", "respond">>)
        ELSE Outcome("awaiting", NoResponse, CalledWith(cleanSql, ast), st, BuildPlan(st),
                     <<"sanitize", "parse", "validate", "build", "execute">>)

\* A handler without the SELECT check on the cleaned text.
PostSyncUnchecked(b, ast) ==
    IF ~b.json
    THEN Outcome("done", OuterCatch(JsError(BAD_JSON)), NotCalled, NoStatement,
                 <<>>, <<"respond">>)
    ELSE IF InvalidSql(b)
    THEN Outcome("done", ErrorResponse(400, Msg(SQL_REQUIRED)), NotCalled,
                 NoStatement, <<>>, <<"respond">>)
    ELSE PostParse(b, cleanSqlOf(b.text), ast)

\* Lines 12-155 of execute-sql-new: the handler up to its await of the store,
\* for the body b and the parser's answer ast.
PostSync(b, ast) ==
    LET cleanSql == cleanSqlOf(b.text)
    IN  IF ~b.json
        THEN Outcome("done", OuterCatch(JsError(BAD_JSON)), NotCalled, NoStatement,
                     <<>>, <<"respond">>)
        ELSE IF InvalidSql(b)
        THEN Outcome("done", ErrorResponse(400, Msg(SQL_REQUIRED)), NotCalled,
                     NoStatement, <<>>, <<"respond">>)
        ELSE IF ~IsSelectText(cleanSql)
        THEN Outcome("done", ErrorResponse(400, MsgWith(ONLY_SELECT_RECEIVED, b.text)),
                     NotCalled, NoStatement, <<>>, <<"sanitize", "respond">>)
        ELSE PostParse(b, cleanSql, ast)

IsAggregate(st) == st.columns.present /\ hasAggregations(st.columns.list)

RECURSIVE Reverse(_)
Reverse(q) == IF q = <<>> THEN <<>> ELSE Reverse(Tail(q)) \o <<Head(q)>>

\* A response that hands the rows back in the opposite order.
PlainResponseReversed(data, sql) == SuccessResponse(Reverse(data), Len(data), sql)

\* Lines 171-175: { data, totalRows: data?.length || 0, originalQuery: sql }
PlainResponse(data, sql) == SuccessResponse(data, Len(data), sql)

\* A response that echoes the cleaned text.
AggregateResponseCleaned(list, data, sql) ==
    SuccessResponse(<<processAggregations(list, data)>>, 1, cleanSqlOf(sql))

\* Lines 162-169: { data: [result], totalRows: 1, originalQuery: sql }
AggregateResponse(list, data, sql) ==
    SuccessResponse(<<processAggregations(list, data)>>, 1, sql)

\* A handler that does not look at the store's error.
ComposeResponseIgnoringError(st, rep, sql) ==
    IF IsAggregate(st) THEN AggregateResponse(st.columns.list, rep.data, sql)
    ELSE PlainResponse(rep.data, sql)

\* Lines 155-186: the handler after the store has answered rep.  A select
\* that succeeds always carries an array, so data is no null here.
ComposeResponse(st, rep, sql) ==
    IF rep.error.present THEN InnerCatch(rep.error, sql)
    ELSE IF IsAggregate(st) THEN AggregateResponse(st.columns.list, rep.data, sql)
    ELSE PlainResponse(rep.data, sql)

\* SqlEditor after its first render and its effects (SqlEditor.tsx lines
\* 41-57 and 172-190): the initial text (its last line stands for the three
\* comment lines) is longer than three characters, so the effect has set the
\* first timer.  A timer holds the text its callback captured; a fetch holds
\* the text it sent; aiSuggestions holds the fetch whose response set it.
EditorMounted ==
    LET initial == <<"-", "-", " ", "S", "E", "L", "E", "C", "T", " ", "*", " ",
                     "F", "R", "O", "M", " ", "p", "l", "a", "y", "e", "r", "s", ";">>
    IN  [sqlQuery |-> initial,
         timers |-> {[id |-> 1, query |-> initial]},
         aiTimeoutRef |-> 1,
         timersSet |-> 1,
         fetches |-> {},
         started |-> 0,
         aiSuggestions |-> [fetch |-> 0, items |-> <<>>],
         showAiSuggestions |-> FALSE,
         loadingAiSuggestions |-> FALSE]

\* AiChat after its first render (part_001 lines 25-36): one greeting of the
\* assistant, an empty input, nothing awaited.  A message holds its type,
\* the number of the request it belongs to and the kind of its content.
ChatMounted ==
    [messages |-> <<[type |-> "assistant", re |-> 0, content |-> "greeting"]>>,
     inputValue |-> <<>>,
     isTyping |-> FALSE,
     pending |-> {},
     sent |-> 0]

InitWith(tables) ==
    /\ route = "none"
    /\ pc = "idle"
    /\ body = NoBody
    /\ parserInput = NotCalled
    /\ statement = NoStatement
    /\ calls = <<>>
    /\ reply = NoReply
    /\ response = NoResponse
    /\ table \in tables
    /\ stages = <<>>
    /\ inFlight = <<>>
    /\ editor = EditorMounted
    /\ chat = ChatMounted

\* execute-sql-new POST, from the request to the await of the store or to an
\* early response.
POST(b, ast) ==
    /\ pc = "idle"
    /\ route' = "new"
    /\ body' = b
    /\ LET o == PostSync(b, ast)
       IN  /\ pc' = o.pc
           /\ response' = o.response
           /\ parserInput' = o.parserInput
           /\ statement' = o.statement
           /\ calls' = o.calls
           /\ stages' = o.stages
    /\ UNCHANGED <<reply, table, inFlight,
                 editor, chat>>

\* A request to execute-sql-new with any of the bodies; the parser answers
\* with any of the parses if the handler calls it.
NewRequest(bodies, parses) ==
    /\ pc = "idle"
    /\ \E b \in bodies, ast \in parses : POST(b, ast)

\* execute-sql-new POST, resumed when the store answers.
POSTResume(rep) ==
    /\ pc = "awaiting"
    /\ route = "new"
    /\ reply' = rep
    /\ response' = ComposeResponse(statement, rep, body.text)
    /\ stages' = stages
                 \o (IF ~rep.error.present /\ IsAggregate(statement)
                     THEN <<"aggregate">> ELSE <<>>)
                 \o <<"respond">>
    /\ pc' = "done"
    /\ UNCHANGED <<route, body, parserInput, statement, calls, table, inFlight,
                 editor, chat>>

\* The response is sent; nothing of the request is kept for the next one.
Finish ==
    /\ pc = "done"
    /\ route' = "none"
    /\ pc' = "idle"
    /\ body' = NoBody
    /\ parserInput' = NotCalled
    /\ statement' = NoStatement
    /\ calls' = <<>>
    /\ reply' = NoReply
    /\ response' = NoResponse
    /\ stages' = <<>>
    /\ UNCHANGED <<table, inFlight, editor, chat>>



(***************************************************************************)
(* The schema route, src/src/app/api/schema/route.ts: GET asks the store   *)
(* for rpc('get_table_schema') and answers { tables }.  The list under     *)
(* the key tables is kept in the data field of the response.               *)
(***************************************************************************)
\* Lines 17-42, and again lines 51-76: the schema written into the handler.
FALLBACK_SCHEMA ==
    <<[name |-> "players",
       columns |->
         <<
           [name |-> "id", type |-> "SERIAL", nullable |-> FALSE],
           [name |-> "name", type |-> "VARCHAR(100)", nullable |-> FALSE],
           [name |-> "league", type |-> "VARCHAR(20)", nullable |-> FALSE],
           [name |-> "team", type |-> "VARCHAR(50)", nullable |-> FALSE],
           [name |-> "age", type |-> "INTEGER", nullable |-> FALSE],
           [name |-> "position", type |-> "VARCHAR(30)", nullable |-> FALSE],
           [name |-> "rating", type |-> "DECIMAL(3,1)", nullable |-> FALSE],
           [name |-> "salary", type |-> "DECIMAL(12,2)", nullable |-> FALSE],
           [name |-> "experience_years", type |-> "INTEGER", nullable |-> FALSE],
           [name |-> "height", type |-> "VARCHAR(10)", nullable |-> TRUE],
           [name |-> "weight", type |-> "INTEGER", nullable |-> TRUE],
           [name |-> "college", type |-> "VARCHAR(100)", nullable |-> TRUE],
           [name |-> "draft_year", type |-> "INTEGER", nullable |-> TRUE],
           [name |-> "draft_round", type |-> "INTEGER", nullable |-> TRUE],
           [name |-> "draft_pick", type |-> "INTEGER", nullable |-> TRUE],
           [name |-> "created_at", type |-> "TIMESTAMP WITH TIME ZONE", nullable |-> TRUE],
           [name |-> "updated_at", type |-> "TIMESTAMP WITH TIME ZONE", nullable |-> TRUE]>>]>>

\* Lines 9-13: GET up to the await of the rpc.
SchemaGET ==
    /\ pc = "idle"
    /\ route' = "schema"
    /\ pc' = "awaiting"
    /\ calls' = <<Call("rpc", "get_table_schema", JsUndef, TRUE, <<>>)>>
    /\ stages' = <<"rpc">>
    /\ UNCHANGED <<body, parserInput, statement, reply, response, table, inFlight,
                 editor, chat>>

\* A GET that hands the error of the rpc to the caller.
SchemaResumeSurfacingError(rep, thrown) ==
    /\ pc = "awaiting"
    /\ route = "schema"
    /\ pc' = "done"
    /\ reply' = IF thrown THEN NoReply ELSE rep
    /\ response' = IF thrown \/ rep.error.present
                   THEN ErrorResponse(500, Msg(EXECUTE_FAILED))
                   ELSE Response(200, {"tables"}, Msg(""), rep.data, 0, <<>>)
    /\ stages' = stages \o <<"respond">>
    /\ UNCHANGED <<route, body, parserInput, statement, calls, table, inFlight,
                 editor, chat>>

\* Lines 12-78: GET resumed when the rpc has answered rep, or when the await
\* has thrown.  tables || [] turns a null into an empty list.
SchemaResume(rep, thrown) ==
    /\ pc = "awaiting"
    /\ route = "schema"
    /\ pc' = "done"
    /\ reply' = IF thrown THEN NoReply ELSE rep
    /\ response' = IF thrown \/ rep.error.present
                   THEN Response(200, {"tables"}, Msg(""), FALLBACK_SCHEMA, 0, <<>>)
                   ELSE Response(200, {"tables"}, Msg(""),
                                 IF rep.dataNull THEN <<>> ELSE rep.data, 0, <<>>)
    /\ stages' = stages \o (IF thrown THEN <<"catch">>
                             ELSE IF rep.error.present THEN <<"fallback">>
                             ELSE <<>>) \o <<"respond">>
    /\ UNCHANGED <<route, body, parserInput, statement, calls, table, inFlight,
                 editor, chat>>

(***************************************************************************)
(* The legacy route, src/src/app/api/execute-sql/route.ts lines 1-218:     *)
(* the cleaned text goes to the exec_sql rpc; when the rpc fails, a        *)
(* fallback picks a builder query by searching the lower-cased text.       *)
(***************************************************************************)
\* The texts the fallback searches the lower-cased query for.
Needle ==
    [avg |-> <<"a", "v", "g", "(">>,
     count |-> <<"c", "o", "u", "n", "t", "(">>,
     sum |-> <<"s", "u", "m", "(">>,
     max |-> <<"m", "a", "x", "(">>,
     min |-> <<"m", "i", "n", "(">>,
     avgDraftPick |->
        <<"a", "v", "g", "(", "d", "r", "a", "f", "t", "_", "p", "i", "c", "k", ")">>,
     whereDraftPick |->
        <<"w", "h", "e", "r", "e", " ", "d", "r", "a", "f", "t", "_", "p", "i",
          "c", "k", " ", "i", "s", " ", "n", "o", "t", " ", "n", "u", "l", "l">>,
     countStar |-> <<"c", "o", "u", "n", "t", "(", "*", ")">>,
     avgRating |-> <<"a", "v", "g", "(", "r", "a", "t", "i", "n", "g", ")">>,
     where |-> <<"w", "h", "e", "r", "e">>,
     selectStar |->
        <<"s", "e", "l", "e", "c", "t", " ", "*", " ", "f", "r", "o", "m", " ",
          "p", "l", "a", "y", "e", "r", "s">>,
     leagueNba |->
        <<"l", "e", "a", "g", "u", "e", " ", "=", " ", "'", "n", "b", "a", "'">>,
     leagueNfl |->
        <<"l", "e", "a", "g", "u", "e", " ", "=", " ", "'", "n", "f", "l", "'">>,
     leagueMlb |->
        <<"l", "e", "a", "g", "u", "e", " ", "=", " ", "'", "m", "l", "b", "'">>,
     teamEq |-> <<"t", "e", "a", "m", " ", "=", " ", "'">>,
     draftPickNotNull |->
        <<"d", "r", "a", "f", "t", "_", "p", "i", "c", "k", " ", "i", "s", " ",
          "n", "o", "t", " ", "n", "u", "l", "l">>,
     team |-> <<"t", "e", "a", "m">>]


\* Line 57
MentionsAggregate(q) ==
    includes(q, Needle.avg) \/ includes(q, Needle.count) \/ includes(q, Needle.sum)
    \/ includes(q, Needle.max) \/ includes(q, Needle.min)

\* Lines 57-194: the branch of the fallback a lower-cased query takes.  The
\* count(*)-with-where branch of line 124 is never taken: line 85 returns first.
LegacyKind(q) ==
    IF MentionsAggregate(q) /\ includes(q, Needle.avgDraftPick)
       /\ includes(q, Needle.whereDraftPick) THEN "avgDraftPick"
    ELSE IF MentionsAggregate(q) /\ includes(q, Needle.countStar) THEN "countStar"
    ELSE IF MentionsAggregate(q) /\ includes(q, Needle.avgRating) THEN "avgRating"
    ELSE IF includes(q, Needle.selectStar) THEN "selectStar"
    ELSE IF includes(q, Needle.where) THEN "where"
    ELSE "tooComplex"

\* Line 169: cleanSql.match(/team\s*=\s*['"]([^'"]+)['"]/i), the leftmost
\* match: whether there is one, and its group 1.
teamMatch(s) ==
    LET RECURSIVE SkipSpaces(_)
        SkipSpaces(i) == IF i <= Len(s) /\ IsSpace(s[i]) THEN SkipSpaces(i + 1) ELSE i
        IsQuote(c) == c \in {"'", "\""}
        RECURSIVE NextQuote(_)
        NextQuote(i) == IF i > Len(s) \/ IsQuote(s[i]) THEN i ELSE NextQuote(i + 1)
        \* Position of the opening quote when the pattern matches at i, else 0.
        QuoteAt(i) ==
            IF i + 3 <= Len(s) /\ toLowerCase(SubSeq(s, i, i + 3)) = Needle.team
            THEN LET j == SkipSpaces(i + 4)
                 IN  IF j <= Len(s) /\ s[j] = "="
                     THEN LET k == SkipSpaces(j + 1)
                          IN  IF k <= Len(s) /\ IsQuote(s[k])
                                 /\ NextQuote(k + 1) <= Len(s)
                                 /\ NextQuote(k + 1) > k + 1
                              THEN k ELSE 0
                     ELSE 0
            ELSE 0
        starts == {i \in 1..Len(s) : QuoteAt(i) # 0}
        first == CHOOSE x \in starts : \A y \in starts : x <= y
    IN  IF starts = {} THEN [found |-> FALSE, name |-> <<>>]
        ELSE [found |-> TRUE,
              name |-> SubSeq(s, QuoteAt(first) + 1, NextQuote(QuoteAt(first) + 1) - 1)]

\* Lines 161-177: the filter the where branch adds.
LegacyFilter(q, clean) ==
    LET \* The string a text denotes, for the texts the tables of this model hold.
        StringOf(text) ==
            CASE text = <<"B", "u", "l", "l", "s">> -> "Bulls"
              [] text = <<"L", "a", "k", "e", "r", "s">> -> "Lakers"
              [] OTHER -> "<other text>"
    IN
    IF includes(q, Needle.leagueNba) THEN <<FilterCall("eq", "league", JsStr("NBA"))>>
    ELSE IF includes(q, Needle.leagueNfl) THEN <<FilterCall("eq", "league", JsStr("NFL"))>>
    ELSE IF includes(q, Needle.leagueMlb) THEN <<FilterCall("eq", "league", JsStr("MLB"))>>
    ELSE IF includes(q, Needle.teamEq)
         THEN IF teamMatch(clean).found
              THEN <<FilterCall("eq", "team", JsStr(StringOf(teamMatch(clean).name)))>>
              ELSE <<>>
    ELSE IF includes(q, Needle.draftPickNotNull)
         THEN <<FilterCall("not", "draft_pick", JsNull)>>
    ELSE <<>>

\* The builder calls of the fallback branch, the execute step included.
LegacyPlan(kind, q, clean) ==
    CASE kind = "avgDraftPick" ->
           <<FromCall(PERMITTED_TABLE), SelectCall(<<Item("draft_pick", Undef)>>),
             FilterCall("not", "draft_pick", JsNull), ExecuteCall>>
      [] kind = "countStar" ->
           <<FromCall(PERMITTED_TABLE), CountSelectCall, ExecuteCall>>
      [] kind = "avgRating" ->
           <<FromCall(PERMITTED_TABLE), SelectCall(<<Item("rating", Undef)>>),
             ExecuteCall>>
      [] kind = "selectStar" ->
           <<FromCall(PERMITTED_TABLE), SelectCall(<<Star>>), ExecuteCall>>
      [] kind = "where" ->
           <<FromCall(PERMITTED_TABLE), SelectCall(<<Star>>)>>
           \o LegacyFilter(q, clean) \o <<ExecuteCall>>
      [] OTHER -> <<>>

TOO_COMPLEX ==
    "Query too complex for fallback execution. Please use simpler queries or ensure the database has the exec_sql function."
FALLBACK_FAILED == "Failed to execute query: "
UNKNOWN_ERROR == "Unknown error"

\* Lines 196-202
FallbackCatch(err) ==
    ErrorResponse(500, [text |-> FALLBACK_FAILED,
                        detail |-> IF err.isError THEN err.message ELSE UNKNOWN_ERROR,
                        arg |-> <<>>])

\* allData.reduce((sum, p) => sum + p[c], 0) / allData.length, rounded
AverageOf(data, c) ==
    Round2(DivInt(Reduce([i \in 1..Len(data) |-> Field(data[i], c)]), Len(data)))

OneKeyRow(k, v) == SetKey(EmptyRow, k, v)

\* Lines 61-188: the response of the fallback branch once the store answered.
LegacyFallbackResponse(kind, rep, sql) ==
    CASE kind = "avgDraftPick" ->
           IF ~rep.dataNull /\ Len(rep.data) > 0
           THEN SuccessResponse(<<OneKeyRow("average_draft_pick",
                                            AverageOf(rep.data, "draft_pick"))>>, 1, sql)
           ELSE SuccessResponse(<<OneKeyRow("average_draft_pick", JsNum(0))>>, 1, sql)
      [] kind = "countStar" ->
           SuccessResponse(<<OneKeyRow("count", IF Truthy(rep.count) THEN rep.count
                                                ELSE JsNum(0))>>, 1, sql)
      [] kind = "avgRating" ->
           IF rep.error.present THEN FallbackCatch(rep.error)
           ELSE IF ~rep.dataNull /\ Len(rep.data) > 0
           THEN SuccessResponse(<<OneKeyRow("average_rating",
                                            AverageOf(rep.data, "rating"))>>, 1, sql)
           ELSE SuccessResponse(<<OneKeyRow("average_rating", JsNum(0))>>, 1, sql)
      [] OTHER ->
           IF rep.error.present THEN FallbackCatch(rep.error)
           ELSE SuccessResponse(rep.data, Len(rep.data), sql)

\* What the exec_sql rpc can answer: an error, the rows, or no data.
RpcReplies(tbl) ==
    {FailedReply(e) : e \in TransportErrors}
    \cup {Reply(NoError, tbl, FALSE, JsNull), Reply(NoError, <<>>, TRUE, JsNull)}

\* Lines 205-209: data || [], Array.isArray(data) ? data.length : 1
LegacyRpcResponse(rep, sql) ==
    SuccessResponse(rep.data, IF rep.dataNull THEN 1 ELSE Len(rep.data), sql)

\* Legacy POST, lines 9-46: from the request to the await of the rpc or to an
\* early response.
LegacyPOST(b) ==
    /\ pc = "idle"
    /\ route' = "legacy"
    /\ body' = b
    /\ LET cleanSql == cleanSqlOf(b.text)
           o == IF ~b.json
                THEN Outcome("done", ErrorResponse(500, Msg(EXECUTE_FAILED)),
                             NotCalled, NoStatement, <<>>, <<"respond">>)
                ELSE IF InvalidSql(b)
                THEN Outcome("done", ErrorResponse(400, Msg(SQL_REQUIRED)),
                             NotCalled, NoStatement, <<>>, <<"respond">>)
                ELSE IF ~IsSelectText(cleanSql)
                THEN Outcome("done",
                             ErrorResponse(400, MsgWith(ONLY_SELECT_RECEIVED, b.text)),
                             NotCalled, NoStatement, <<>>, <<"sanitize", "respond">>)
                ELSE Outcome("rpc", NoResponse, NotCalled, NoStatement,
                             <<[Call("rpc", "exec_sql", JsUndef, TRUE, <<>>)
                                EXCEPT !.text = cleanSql]>>, <<"sanitize", "rpc">>)
       IN  /\ pc' = o.pc
           /\ response' = o.response
           /\ parserInput' = o.parserInput
           /\ statement' = o.statement
           /\ calls' = o.calls
           /\ stages' = o.stages
    /\ UNCHANGED <<reply, table, inFlight,
                 editor, chat>>

\* Legacy POST resumed when the rpc answers: respond, or start the fallback.
LegacyRpcReturn(rep) ==
    /\ pc = "rpc"
    /\ LET clean == cleanSqlOf(body.text)
           query == toLowerCase(clean)
           kind == LegacyKind(query)
       IN  IF ~rep.error.present
           THEN /\ pc' = "done"
                /\ reply' = rep
                /\ response' = LegacyRpcResponse(rep, body.text)
                /\ stages' = stages \o <<"respond">>
                /\ UNCHANGED calls
           ELSE IF kind = "tooComplex"
           THEN /\ pc' = "done"
                /\ reply' = rep
                /\ response' = ErrorResponse(400, Msg(TOO_COMPLEX))
                /\ stages' = stages \o <<"fallback", "respond">>
                /\ UNCHANGED calls
           ELSE /\ pc' = "awaiting"
                /\ reply' = rep
                /\ calls' = calls \o LegacyPlan(kind, query, clean)
                /\ stages' = stages \o <<"fallback", "execute">>
                /\ UNCHANGED response
    /\ UNCHANGED <<route, body, parserInput, statement, table, inFlight,
                 editor, chat>>

\* Legacy POST resumed when the fallback's builder query answers.
LegacyResume(rep) ==
    /\ pc = "awaiting"
    /\ route = "legacy"
    /\ reply' = rep
    /\ response' = LegacyFallbackResponse(
                       LegacyKind(toLowerCase(cleanSqlOf(body.text))), rep, body.text)
    /\ stages' = stages \o <<"respond">>
    /\ pc' = "done"
    /\ UNCHANGED <<route, body, parserInput, statement, calls, table, inFlight,
                 editor, chat>>

(***************************************************************************)
(* Inputs.                                                                 *)
(***************************************************************************)
\* The pieces request texts are put together from: the keyword in mixed
\* case, another keyword, a line terminator, and the comment delimiters.
Fragment ==
    [select |-> <<"S", "e", "L", "E", "C", "T">>,
     other |-> <<"d", "r", "o", "p">>,
     newline |-> <<"\n">>,
     dashes |-> <<"-", "-">>,
     open |-> <<"/", "*">>,
     close |-> <<"*", "/">>]


\* Every text made of at most k fragments.
RECURSIVE FragTexts(_)
FragTexts(k) ==
    IF k = 0 THEN {<<>>}
    ELSE FragTexts(k - 1) \cup {t \o f : t \in FragTexts(k - 1), f \in {Fragment[n] : n \in DOMAIN Fragment}}

\* Request texts the fallback of the legacy route tells apart.
LegacyQuery ==
    [selectStar |->
        <<"s", "e", "l", "e", "c", "t", " ", "*", " ", "f", "r", "o", "m", " ",
          "p", "l", "a", "y", "e", "r", "s">>,
     countStar |->
        <<"S", "E", "L", "E", "C", "T", " ", "C", "O", "U", "N", "T", "(", "*",
          ")", " ", "F", "R", "O", "M", " ", "p", "l", "a", "y", "e", "r", "s">>,
     avgRating |->
        <<"s", "e", "l", "e", "c", "t", " ", "a", "v", "g", "(", "r", "a", "t",
          "i", "n", "g", ")", " ", "f", "r", "o", "m", " ", "p", "l", "a", "y",
          "e", "r", "s">>,
     avgDraftPick |->
        <<"s", "e", "l", "e", "c", "t", " ", "a", "v", "g", "(", "d", "r", "a",
          "f", "t", "_", "p", "i", "c", "k", ")", " ", "f", "r", "o", "m", " ",
          "p", "l", "a", "y", "e", "r", "s", " ", "w", "h", "e", "r", "e", " ",
          "d", "r", "a", "f", "t", "_", "p", "i", "c", "k", " ", "i", "s", " ",
          "n", "o", "t", " ", "n", "u", "l", "l">>,
     whereTeam |->
        <<"s", "e", "l", "e", "c", "t", " ", "t", "e", "a", "m", " ", "f", "r",
          "o", "m", " ", "p", "l", "a", "y", "e", "r", "s", " ", "w", "h", "e",
          "r", "e", " ", "T", "e", "a", "m", " ", "=", " ", "'", "B", "u", "l",
          "l", "s", "'">>,
     whereLeague |->
        <<"s", "e", "l", "e", "c", "t", " ", "t", "e", "a", "m", " ", "f", "r",
          "o", "m", " ", "p", "l", "a", "y", "e", "r", "s", " ", "w", "h", "e",
          "r", "e", " ", "l", "e", "a", "g", "u", "e", " ", "=", " ", "'", "N",
          "B", "A", "'">>,
     whereDraft |->
        <<"s", "e", "l", "e", "c", "t", " ", "t", "e", "a", "m", " ", "f", "r",
          "o", "m", " ", "p", "l", "a", "y", "e", "r", "s", " ", "w", "h", "e",
          "r", "e", " ", "d", "r", "a", "f", "t", "_", "p", "i", "c", "k", " ",
          "i", "s", " ", "n", "o", "t", " ", "n", "u", "l", "l">>,
     whereOther |->
        <<"s", "e", "l", "e", "c", "t", " ", "t", "e", "a", "m", " ", "f", "r",
          "o", "m", " ", "p", "l", "a", "y", "e", "r", "s", " ", "w", "h", "e",
          "r", "e", " ", "a", "g", "e", " ", ">", " ", "2", "5">>,
     sum |->
        <<"s", "e", "l", "e", "c", "t", " ", "s", "u", "m", "(", "a", "g", "e",
          ")", " ", "f", "r", "o", "m", " ", "p", "l", "a", "y", "e", "r", "s">>]

LegacyTexts == {LegacyQuery[k] : k \in DOMAIN LegacyQuery}

\* A body that is no JSON, bodies whose sql is missing, null, a number or an
\* object, and bodies whose sql is one of the texts.
Bodies(texts) ==
    {Body(FALSE, "undefined", <<>>)}
    \cup {Body(TRUE, ty, <<>>) : ty \in {"undefined", "null", "number", "object"}}
    \cup {Body(TRUE, "string", x) : x \in texts}

\* A row of players, with the columns the handlers name; draft_pick is the
\* one of them that may be null.
PlayerRow(team, age, rating, draftPick, league) ==
    [team |-> JsStr(team), age |-> age, rating |-> rating,
     draft_pick |-> draftPick, league |-> JsStr(league)]


\* Every table of at most k rows.
RECURSIVE Tables(_)
Tables(k) ==
    LET Rows ==
            {PlayerRow("Lakers", JsNum(25), JsNum(8), JsNum(1), "NBA"),
             PlayerRow("Bulls", JsNum(30), JsNum(7), JsNull, "NBA"),
             PlayerRow("Lakers", JsNum(41), JsNum(9), JsNum(4), "NFL"),
             PlayerRow("Bulls", JsNum(25), JsNum(8), JsNull, "MLB")}
    IN  IF k = 0 THEN {<<>>}
        ELSE Tables(k - 1) \cup {t \o <<r>> : t \in Tables(k - 1), r \in Rows}

PlayersFrom == FromArray(<<Entry("players", Undef)>>)

StarColumn == ColumnRef("*", Undef)
CountStar == AggrFunc("COUNT", "*", Undef, Undef)

SelectStar(from) ==
    Statement("select", from, Columns(<<StarColumn>>), NoWhere, NoOrderBy, NoLimit)

\* What the parser can answer in the validation runs: statements that differ
\* in type, FROM shape and kind of projection, and lists of statements.
\* FromShapes are the shapes of statement.from: array or object, table under
\* 'table' or 'name', other tables, a table name differing in case, a join,
\* no entry.
ValidationParses ==
    LET FromShapes ==
            {PlayersFrom,
             FromArray(<<Entry(Undef, "players")>>),
             FromObject(Entry("players", Undef)),
             FromObject(Entry(Undef, "players")),
             FromArray(<<Entry("other_table", Undef)>>),
             FromArray(<<Entry("other_table", "players")>>),
             FromArray(<<Entry("Players", Undef)>>),
             FromArray(<<Entry("players", Undef), Entry("other_table", Undef)>>),
             FromArray(<<Entry("other_table", Undef), Entry("players", Undef)>>),
             FromArray(<<>>),
             FromArray(<<[obj |-> FALSE, table |-> Undef, name |-> Undef]>>),
             FromObject(Entry("other_table", Undef)),
             FromObject(Entry(Undef, Undef)),
             FromNull}
        ValidationStatements ==
            {Statement("select", f, Columns(<<c>>), NoWhere, NoOrderBy, NoLimit) :
                f \in FromShapes, c \in {StarColumn, CountStar}}
            \cup {Statement("update", f, NoColumns, NoWhere, NoOrderBy, NoLimit) :
                    f \in {PlayersFrom, FromNull}}
    IN
    {ParseFailure, ParsedMany(<<>>)}
    \cup {ParsedOne(st) : st \in ValidationStatements}
    \cup {ParsedMany(<<SelectStar(PlayersFrom)>>),
          ParsedMany(<<SelectStar(PlayersFrom),
                       SelectStar(FromArray(<<Entry("other_table", Undef)>>))>>),
          ParsedMany(<<SelectStar(FromArray(<<Entry("other_table", Undef)>>)),
                       SelectStar(PlayersFrom)>>),
          ParsedMany(<<SelectStar(PlayersFrom),
                       Statement("select", PlayersFrom, Columns(<<CountStar>>),
                                 NoWhere, NoOrderBy, NoLimit)>>),
          ParsedMany(<<SelectStar(PlayersFrom),
                       Statement("update", PlayersFrom, NoColumns, NoWhere,
                                 NoOrderBy, NoLimit)>>),
          ParsedMany(<<Statement("update", PlayersFrom, NoColumns, NoWhere,
                                 NoOrderBy, NoLimit),
                       SelectStar(PlayersFrom)>>)}

\* The texts of fragments, the legacy texts and '/*--*/SeLECT', a block
\* comment that holds two dashes.
ValidationBodies ==
    Bodies(FragTexts(MaxFrags) \cup LegacyTexts
           \cup {Fragment.open \o Fragment.dashes \o Fragment.close \o Fragment.select})

(***************************************************************************)
(* Spec: both routes, over request texts put together from fragments and   *)
(* statements that differ in type and FROM shape, against one table.       *)
(***************************************************************************)
Init ==
    InitWith({<<PlayerRow("Lakers", JsNum(25), JsNum(8), JsNum(1), "NBA"),
                PlayerRow("Bulls", JsNum(30), JsNum(7), JsNull, "NBA")>>})

Next ==
    \/ NewRequest(ValidationBodies, ValidationParses)
    \/ pc = "awaiting" /\ \E rep \in StoreReplies(table, calls) : POSTResume(rep)
    \/ pc = "idle" /\ \E b \in ValidationBodies : LegacyPOST(b)
    \/ pc = "rpc" /\ \E rep \in RpcReplies(table) : LegacyRpcReturn(rep)
    \/ pc = "awaiting" /\ \E rep \in StoreReplies(table, calls) : LegacyResume(rep)
    \/ SchemaGET
    \/ pc = "awaiting"
       /\ \E rep \in {FailedReply(e) : e \in TransportErrors}
                    \cup {Reply(NoError, <<>>, TRUE, JsNull),
                          Reply(NoError, <<>>, FALSE, JsNull),
                          Reply(NoError, FALLBACK_SCHEMA, FALSE, JsNull),
                          Reply(NoError, <<[name |-> "teams", columns |-> <<>>],
                                           [name |-> "players", columns |-> <<>>]>>,
                                FALSE, JsNull)},
             thrown \in BOOLEAN : SchemaResume(rep, thrown)
    \/ Finish

Spec == Init /\ [][Next]_vars

(***************************************************************************)
(* SpecQuery: execute-sql-new over projections of up to MaxCols entries,   *)
(* an absent, a supported and an unsupported predicate, and every table of *)
(* up to MaxRows rows.                                                     *)
(***************************************************************************)
\* '/**/SeLECT': a text the sanitizer changes.
QueryText == Fragment.open \o Fragment.close \o Fragment.select

\* Every projection of at most k entries.
RECURSIVE ColumnLists(_)
ColumnLists(k) ==
    LET ColumnChoices ==
            {StarColumn,
             ColumnRef("team", Undef),
             ColumnRef("age", "years"),
             CountStar,
             AggrFunc("COUNT", "*", Undef, "total"),
             AggrFunc("AVG", Undef, "age", Undef)}
    IN  IF k = 0 THEN {<<>>}
        ELSE ColumnLists(k - 1)
             \cup {l \o <<c>> : l \in ColumnLists(k - 1), c \in ColumnChoices}

\* WHERE team = 'Lakers'
TeamIsLakers ==
    BinaryExpr("=", Operand("column_ref", "team", JsUndef),
               Operand("single_quote_string", Undef, JsStr("Lakers")))

\* WHERE age = 25: numeric equality, which applyWhereClause does not translate
AgeIs25 ==
    BinaryExpr("=", Operand("column_ref", "age", JsUndef),
               Operand("number", Undef, JsNum(25)))

\* What the parser can answer in the query runs.
QueryParses ==
    LET QueryStatements ==
            {Statement("select", PlayersFrom, cols, w, NoOrderBy, NoLimit) :
                cols \in {NoColumns} \cup {Columns(l) : l \in ColumnLists(MaxCols)},
                w \in {NoWhere, TeamIsLakers, AgeIs25}}
    IN  {ParseFailure} \cup {ParsedOne(st) : st \in QueryStatements}

InitQuery == InitWith(Tables(MaxRows))

NextQuery ==
    \/ NewRequest(Bodies({QueryText}), QueryParses)
    \/ pc = "awaiting"
       /\ \E rep \in StoreRepliesWith({StoreError(FALSE, TRANSPORT_FAILURE, Undef)},
                                      table, calls) : POSTResume(rep)
    \/ Finish

SpecQuery == InitQuery /\ [][NextQuery]_vars

(***************************************************************************)
(* SpecAggregate: execute-sql-new over aggregate projections (every        *)
(* function, resolved and unresolved target columns, aliases, keys that    *)
(* collide) and every table of up to MaxRows + 1 rows.                     *)
(***************************************************************************)
\* A first aggregate of any kind, followed by up to MaxCols - 1 others.
AggregateStatements ==
    LET first ==
            {AggrFunc("AVG", Undef, "age", Undef),
             AggrFunc("avg", Undef, "draft_pick", "mean"),
             AggrFunc("SUM", Undef, "draft_pick", Undef),
             AggrFunc("MAX", Undef, "draft_pick", Undef),
             AggrFunc("MIN", Undef, "draft_pick", Undef),
             CountStar,
             AggrFunc("COUNT", Undef, "team", Undef),
             AggrFunc("AVG", Undef, Undef, Undef),
             AggrFunc("SUM", Undef, Undef, Undef),
             AggrFunc("MAX", Undef, Undef, "top"),
             AggrFunc("MIN", Undef, Undef, Undef),
             AggrFunc("Avg", Undef, "rating", Undef)}
        others ==
            {CountStar,
             AggrFunc("Avg", Undef, "rating", Undef),
             AggrFunc("MAX", Undef, Undef, "top")}
        RECURSIVE Rest(_)
        Rest(k) ==
            IF k = 0 THEN {<<>>}
            ELSE Rest(k - 1) \cup {l \o <<c>> : l \in Rest(k - 1), c \in others}
    IN  {Statement("select", PlayersFrom, Columns(<<a>> \o r), NoWhere, NoOrderBy,
                   NoLimit) :
            a \in first, r \in Rest(MaxCols - 1)}

NextAggregate ==
    \/ NewRequest(Bodies({QueryText}),
                  {ParsedOne(st) : st \in AggregateStatements})
    \/ pc = "awaiting"
       /\ \E rep \in StoreRepliesWith({StoreError(FALSE, TRANSPORT_FAILURE, Undef)},
                                      table, calls) : POSTResume(rep)
    \/ Finish

SpecAggregate == InitWith(Tables(MaxRows + 1)) /\ [][NextAggregate]_vars

(***************************************************************************)
(* SpecPlan: execute-sql-new over SELECT * statements that differ in the   *)
(* shape of the predicate, the ORDER BY entries and the encoding of the    *)
(* limit, over projections of columns and other expressions, and every     *)
(* table of up to MaxRows rows.                                            *)
(***************************************************************************)
PlanStatements ==
    LET Col(c) == Operand("column_ref", c, JsUndef)
        Str(ty, s) == Operand(ty, Undef, JsStr(s))
        Num(n) == Operand("number", Undef, JsNum(n))
        Nested == Operand("binary_expr", Undef, JsUndef)
        \* The shapes applyWhereClause translates.
        translated ==
            {BinaryExpr("=", Col("team"), Str("string", "Bulls")),
             BinaryExpr("!=", Col("team"), Str("single_quote_string", "Lakers")),
             FunctionExpr("IS", <<Col("draft_pick"), Str("null", "NULL")>>),
             FunctionExpr("IS NOT", <<Col("draft_pick"), Str("null", "NULL")>>),
             TeamIsLakers}
            \cup {BinaryExpr(op, Col("age"), Num(25)) : op \in {">", ">=", "<", "<="}}
        \* Numeric equality and inequality, a range over text, AND and OR over
        \* nested comparisons, LIKE, IN, a left operand that is no column, IS
        \* and IS NOT as binary expressions, IS with another right operand, another
        \* function, and a node that is neither.
        others ==
            {AgeIs25,
             BinaryExpr("!=", Col("age"), Num(25)),
             BinaryExpr(">", Col("team"), Str("single_quote_string", "Bulls")),
             BinaryExpr("AND", Nested, Nested),
             BinaryExpr("OR", Nested, Nested),
             BinaryExpr("LIKE", Col("team"), Str("single_quote_string", "Lakers")),
             BinaryExpr("IN", Col("team"), Operand("expr_list", Undef, JsUndef)),
             BinaryExpr("=", Str("single_quote_string", "Bulls"),
                        Str("single_quote_string", "Bulls")),
             BinaryExpr(">", Num(30), Num(25)),
             BinaryExpr("IS", Col("draft_pick"), Operand("null", Undef, JsNull)),
             BinaryExpr("IS NOT", Col("draft_pick"), Operand("null", Undef, JsNull)),
             FunctionExpr("IS", <<Col("draft_pick"), Operand("bool", Undef, JsStr("TRUE"))>>),
             FunctionExpr("UPPER", <<Col("team")>>),
             [NoWhere EXCEPT !.present = TRUE, !.type = "column_ref"]}
        entries ==
            {[column |-> "age", type |-> "ASC"], [column |-> "age", type |-> "DESC"],
             [column |-> "team", type |-> Undef], [column |-> "rating", type |-> "DESC"]}
        RECURSIVE Orders(_)
        Orders(k) ==
            IF k = 0 THEN {<<>>}
            ELSE Orders(k - 1) \cup {l \o <<e>> : l \in Orders(k - 1), e \in entries}
        \* A number as a bare value, as [{ value }] and as { value }; then an
        \* empty array, an array whose first element has no value or a null
        \* one, an array of two elements, an object without value, no value,
        \* null, and a text.
        limits ==
            UNION {{Limit("prim", <<>>, JsNum(n)), Limit("array", <<JsNum(n)>>, JsUndef),
                    Limit("object", <<>>, JsNum(n))} : n \in 0..MaxLimit}
            \cup {Limit("array", <<>>, JsUndef), Limit("array", <<JsUndef>>, JsUndef),
                  Limit("array", <<JsNull>>, JsUndef),
                  Limit("array", <<JsNum(1), JsNum(2)>>, JsUndef),
                  Limit("object", <<>>, JsUndef), Limit("prim", <<>>, JsUndef),
                  Limit("prim", <<>>, JsNull), Limit("prim", <<>>, JsStr("5"))}
        \* team, age AS years, UPPER(team), UPPER(team) AS t, and the literal 1
        \* with and without an alias.
        projected ==
            {ColumnRef("team", Undef), ColumnRef("age", "years"),
             [expr |-> Expr("function", Undef, "UPPER", Undef, Undef), as |-> Undef],
             [expr |-> Expr("function", Undef, "UPPER", Undef, Undef), as |-> "t"],
             [expr |-> Expr("number", Undef, Undef, Undef, Undef), as |-> Undef],
             [expr |-> Expr("number", Undef, Undef, Undef, Undef), as |-> "one"]}
        RECURSIVE Projections(_)
        Projections(k) ==
            IF k = 0 THEN {<<>>}
            ELSE Projections(k - 1)
                 \cup {l \o <<e>> : l \in Projections(k - 1), e \in projected}
        Select(w, o, l) ==
            Statement("select", PlayersFrom, Columns(<<StarColumn>>), w, o, l)
    IN  {Select(w, NoOrderBy, NoLimit) : w \in {NoWhere} \cup translated \cup others}
        \cup {Select(NoWhere, OrderBy(o), NoLimit) : o \in Orders(MaxOrders)}
        \cup {Select(NoWhere, NoOrderBy, l) : l \in limits}
        \cup {Select(w, OrderBy(<<[column |-> "age", type |-> "DESC"]>>),
                     Limit("array", <<JsNum(1)>>, JsUndef)) :
                 w \in {TeamIsLakers, AgeIs25}}
        \* WHERE team = 'Lakers' and WHERE age > 25 with ORDER BY age or team,
        \* with and without LIMIT n.
        \cup {Select(w, OrderBy(<<[column |-> c, type |-> m]>>), l) :
                 w \in {TeamIsLakers, BinaryExpr(">", Col("age"), Num(25))},
                 c \in {"age", "team"}, m \in {"ASC", Undef},
                 l \in {NoLimit} \cup {Limit("array", <<JsNum(n)>>, JsUndef) :
                                         n \in 0..MaxLimit}}
        \cup {Statement("select", PlayersFrom, Columns(p), NoWhere, NoOrderBy, NoLimit) :
                 p \in Projections(MaxCols)}
        \* One aggregate over all rows or the rows of the Lakers, with and
        \* without LIMIT n.
        \cup {Statement("select", PlayersFrom, Columns(<<a>>), w, NoOrderBy, l) :
                 a \in {CountStar} \cup {AggrFunc(f, Undef, "age", Undef) :
                                            f \in {"SUM", "AVG", "MAX", "MIN"}},
                 w \in {NoWhere, TeamIsLakers},
                 l \in {NoLimit} \cup {Limit("array", <<JsNum(n)>>, JsUndef) :
                                         n \in 0..MaxLimit}}

NextPlan ==
    \/ NewRequest(Bodies({QueryText}), {ParsedOne(st) : st \in PlanStatements})
    \/ pc = "awaiting"
       /\ \E rep \in StoreRepliesWith({StoreError(FALSE, TRANSPORT_FAILURE, Undef)},
                                      table, calls) : POSTResume(rep)
    \/ Finish

SpecPlan == InitQuery /\ [][NextPlan]_vars

(***************************************************************************)
(* SpecConcurrent: up to MaxRequests requests to execute-sql-new in flight *)
(* together.  The server runs one handler at a time and switches at an     *)
(* await: the handler runs from the request to the await of the store      *)
(* (line 155) and from the answer of the store to the response.  At the    *)
(* await of request.json() (line 14) a request holds nothing but its       *)
(* request, which is the idle context here.  Everything a request holds    *)
(* is a const or let of the call of POST (lines 14, 21, 24, 40, 51, 91,    *)
(* 155), so a switch takes all of it along; supabase and parser (lines     *)
(* 5-10) are module constants on which the handler only calls from() and   *)
(* astify().                                                               *)
(***************************************************************************)
MaxRequests == 2

\* A mutant of Yield: the query builder is one object for all requests.
YieldSharingBuilder(i) ==
    LET current == [route |-> route, pc |-> pc, body |-> body,
                    parserInput |-> parserInput, statement |-> statement,
                    calls |-> calls, reply |-> reply, response |-> response,
                    stages |-> stages]
        fresh == [route |-> "none", pc |-> "idle", body |-> NoBody,
                  parserInput |-> NotCalled, statement |-> NoStatement,
                  calls |-> <<>>, reply |-> NoReply, response |-> NoResponse,
                  stages |-> <<>>]
        other == IF i <= Len(inFlight) THEN inFlight[i] ELSE fresh
    IN  /\ pc \in {"idle", "awaiting"}
        /\ route \in {"none", "new"}
        /\ i \in 1..(Len(inFlight) + 1)
        /\ i < MaxRequests
        /\ inFlight' = IF i <= Len(inFlight)
                       THEN [inFlight EXCEPT ![i] = current]
                       ELSE Append(inFlight, current)
        /\ route' = other.route
        /\ pc' = other.pc
        /\ body' = other.body
        /\ parserInput' = other.parserInput
        /\ statement' = other.statement
        /\ reply' = other.reply
        /\ response' = other.response
        /\ stages' = other.stages
        /\ UNCHANGED <<calls, table, editor, chat>>

\* The running handler is suspended at an await (or has not begun) and the
\* server goes on with request i of the others, or with a request that has
\* just arrived.
Yield(i) ==
    LET current == [route |-> route, pc |-> pc, body |-> body,
                    parserInput |-> parserInput, statement |-> statement,
                    calls |-> calls, reply |-> reply, response |-> response,
                    stages |-> stages]
        fresh == [route |-> "none", pc |-> "idle", body |-> NoBody,
                  parserInput |-> NotCalled, statement |-> NoStatement,
                  calls |-> <<>>, reply |-> NoReply, response |-> NoResponse,
                  stages |-> <<>>]
        other == IF i <= Len(inFlight) THEN inFlight[i] ELSE fresh
    IN  /\ pc \in {"idle", "awaiting"}
        /\ route \in {"none", "new"}
        /\ i \in 1..(Len(inFlight) + 1)
        /\ i < MaxRequests
        /\ inFlight' = IF i <= Len(inFlight)
                       THEN [inFlight EXCEPT ![i] = current]
                       ELSE Append(inFlight, current)
        /\ route' = other.route
        /\ pc' = other.pc
        /\ body' = other.body
        /\ parserInput' = other.parserInput
        /\ statement' = other.statement
        /\ calls' = other.calls
        /\ reply' = other.reply
        /\ response' = other.response
        /\ stages' = other.stages
        /\ UNCHANGED <<table, editor, chat>>

NextConcurrent ==
    \/ NewRequest(Bodies({QueryText, Fragment.select}),
                  {ParseFailure,
                   ParsedOne(Statement("select", PlayersFrom,
                                       Columns(<<ColumnRef("team", Undef)>>),
                                       TeamIsLakers, NoOrderBy,
                                       Limit("array", <<JsNum(1)>>, JsUndef))),
                   ParsedOne(Statement("select", PlayersFrom, Columns(<<CountStar>>),
                                       NoWhere, NoOrderBy, NoLimit)),
                   ParsedOne(Statement("select", PlayersFrom, Columns(<<StarColumn>>),
                                       NoWhere,
                                       OrderBy(<<[column |-> "age", type |-> "DESC"]>>),
                                       NoLimit))})
    \/ pc = "awaiting" /\ \E rep \in StoreReplies(table, calls) : POSTResume(rep)
    \/ \E i \in 1..MaxRequests : Yield(i)
    \/ Finish

SpecConcurrent == Init /\ [][NextConcurrent]_vars

(***************************************************************************)
(* SpecUi: the two components of the page, each under any order of what    *)
(* the user does, of timers and of responses.                              *)
(*                                                                         *)
(* SqlEditor (src/src/app/components/SqlEditor.tsx): an effect on sqlQuery *)
(* arms a timer of 1.5 s that calls fetchAiSuggestions with the text of    *)
(* its render; the response of the fetch sets aiSuggestions.               *)
(*                                                                         *)
(* AiChat (src/unnamed/part_001): the Send button and the Enter key call   *)
(* handleSendMessage, which awaits generateResponse.                       *)
(***************************************************************************)
MaxTimers == 2
MaxSends == 2

\* Lines 172-190, run when sqlQuery has changed: the cleanup of the previous
\* run and this run both clear the timer aiTimeoutRef.current names; a text
\* that is not blank and longer than three characters arms a new timer, any
\* other text hides the suggestions.
EditQuery(text) ==
    LET armed == (\E i \in 1..Len(text) : ~IsSpace(text[i])) /\ Len(text) > 3
        cleared == {tm \in editor.timers : tm.id # editor.aiTimeoutRef}
        id == editor.timersSet + 1
    IN  /\ text # editor.sqlQuery
        /\ armed => editor.timersSet < MaxTimers
        /\ editor' = [editor EXCEPT
                        !.sqlQuery = text,
                        !.timers = IF armed
                                   THEN cleared \cup {[id |-> id, query |-> text]}
                                   ELSE cleared,
                        !.aiTimeoutRef = IF armed THEN id ELSE @,
                        !.timersSet = IF armed THEN id ELSE @,
                        !.showAiSuggestions = IF armed THEN @ ELSE FALSE]
        /\ UNCHANGED <<route, pc, body, parserInput, statement, calls, reply,
                       response, table, stages, inFlight, chat>>

\* Lines 178-180 and 255-268: the timer fires and fetchAiSuggestions sends
\* the text the timer was armed with.
TimerFires(tm) ==
    /\ tm \in editor.timers
    /\ editor' = IF \E i \in 1..Len(tm.query) : ~IsSpace(tm.query[i])
                 THEN [editor EXCEPT
                         !.timers = @ \ {tm},
                         !.loadingAiSuggestions = TRUE,
                         !.started = @ + 1,
                         !.fetches = @ \cup {[id |-> editor.started + 1,
                                              query |-> tm.query]}]
                 ELSE [editor EXCEPT !.timers = @ \ {tm}]
    /\ UNCHANGED <<route, pc, body, parserInput, statement, calls, reply,
                   response, table, stages, inFlight, chat>>

\* Lines 270-280: fetch f is answered.  An ok response sets the suggestions
\* the service gave for the text of f (data.suggestions || []) and shows
\* them; a response that is not ok and a failed fetch set nothing; finally
\* loading is off.
FetchResponds(f, outcome) ==
    /\ f \in editor.fetches
    /\ editor' = [editor EXCEPT
                    !.fetches = @ \ {f},
                    !.aiSuggestions =
                        CASE outcome = "suggestions" ->
                                 [fetch |-> f.id, items |-> <<f.query>>]
                          [] outcome = "no list" -> [fetch |-> f.id, items |-> <<>>]
                          [] OTHER -> @,
                    !.showAiSuggestions =
                        IF outcome \in {"suggestions", "no list"} THEN TRUE ELSE @,
                    !.loadingAiSuggestions = FALSE]
    /\ UNCHANGED <<route, pc, body, parserInput, statement, calls, reply,
                   response, table, stages, inFlight, chat>>

\* part_001 line 276: onChange of the textarea, which is never disabled.
ChatInput(v) ==
    /\ chat' = [chat EXCEPT !.inputValue = v]
    /\ UNCHANGED <<route, pc, body, parserInput, statement, calls, reply,
                   response, table, stages, inFlight, editor>>

\* part_001 lines 142-155, up to the await of generateResponse: a blank input
\* returns; otherwise the user's message is appended, the input emptied,
\* isTyping set and the request started.
handleSendMessage ==
    /\ chat' = IF \E i \in 1..Len(chat.inputValue) : ~IsSpace(chat.inputValue[i])
               THEN [messages |-> Append(chat.messages,
                                         [type |-> "user", re |-> chat.sent + 1,
                                          content |-> "input"]),
                     inputValue |-> <<>>,
                     isTyping |-> TRUE,
                     pending |-> chat.pending \cup {chat.sent + 1},
                     sent |-> chat.sent + 1]
               ELSE chat
    /\ UNCHANGED <<route, pc, body, parserInput, statement, calls, reply,
                   response, table, stages, inFlight, editor>>

\* part_001 lines 282-288: a click on the Send button, which is disabled
\* while the input is blank or isTyping is set.
SendClick ==
    /\ ~((~\E i \in 1..Len(chat.inputValue) : ~IsSpace(chat.inputValue[i]))
         \/ chat.isTyping)
    /\ chat.sent < MaxSends
    /\ handleSendMessage

\* part_001 lines 173-178: a key pressed in the textarea.
handleKeyPress(key, shiftKey) ==
    /\ chat.sent < MaxSends
    /\ IF key = "Enter" /\ ~shiftKey
       THEN handleSendMessage
       ELSE UNCHANGED vars

\* part_001 lines 155-170: generateResponse of request k settles, with the
\* answer of the service or with an apology (lines 96-104 and 131-139, or
\* the catch of lines 158-166); the message is appended and isTyping is
\* cleared.
ChatResponds(k, content) ==
    /\ k \in chat.pending
    /\ chat' = [chat EXCEPT
                  !.messages = Append(@, [type |-> "assistant", re |-> k,
                                          content |-> content]),
                  !.isTyping = FALSE,
                  !.pending = @ \ {k}]
    /\ UNCHANGED <<route, pc, body, parserInput, statement, calls, reply,
                   response, table, stages, inFlight, editor>>

NextUi ==
    \/ \E text \in {<<>>, <<" ", " ", " ", " ">>, <<"S", "E", "L">>,
                     <<"S", "E", "L", "E">>, <<"S", "E", "L", "E", "C">>} :
          EditQuery(text)
    \/ \E tm \in editor.timers : TimerFires(tm)
    \/ \E f \in editor.fetches,
          outcome \in {"suggestions", "no list", "not ok", "failed"} :
          FetchResponds(f, outcome)
    \/ \E v \in {<<>>, <<" ">>, <<"h", "i">>} : ChatInput(v)
    \/ SendClick
    \/ \E key \in {"Enter", "a"}, shiftKey \in BOOLEAN : handleKeyPress(key, shiftKey)
    \/ \E k \in chat.pending, content \in {"answer", "apology"} :
          ChatResponds(k, content)

SpecUi == Init /\ [][NextUi]_vars

(***************************************************************************)
(* Properties.                                                             *)
(***************************************************************************)
Answered == pc = "done"
ExecuteCount == Len(SelectOp(calls, "execute"))
SqlIsText == body.json /\ body.type = "string"

\* C1: a request whose sql, after comment stripping and trimming, does not
\* start case-insensitively with 'select' is answered with a 400 error, and no
\* call of any kind (from, select, filter, execute, rpc) is made to the store,
\* in execute-sql-new and in the legacy route.
C1_NonSelectRejectedWithoutStoreCall ==
    (route \in {"new", "legacy"} /\ SqlIsText
     /\ ~IsSelectText(cleanSqlOf(body.text)))
    => /\ Answered
       /\ response.status = 400
       /\ "error" \in response.keys
       /\ calls = <<>>

\* A text that holds 'select', but not at the start of the cleaned text, was
\* rejected.
C1_Witness ==
    /\ route = "new"
    /\ Answered
    /\ SqlIsText
    /\ includes(toLowerCase(body.text), SELECT_KW)
    /\ ~IsSelectText(cleanSqlOf(body.text))
    /\ response.status = 400

\* C2: a parsed SELECT statement whose table name is not exactly 'players', or
\* cannot be resolved from either FROM shape, is answered with 400 'Only
\* queries on the "players" table are supported' (not with the answer of a
\* catch block), and no builder or store call is issued.
C2_OtherTableRejectedWithoutStoreCall ==
    (route = "new" /\ statement.type = "select"
     /\ tableNameOf(statement.from) # PERMITTED_TABLE)
    => /\ Answered
       /\ response = ErrorResponse(400, Msg(ONLY_PLAYERS))
       /\ calls = <<>>

\* A SELECT on another table, and one whose FROM holds no entry, were rejected.
C2_Witness ==
    /\ route = "new"
    /\ Answered
    /\ statement.type = "select"
    /\ \/ statement.from = FromArray(<<Entry("other_table", "players")>>)
       \/ statement.from = FromArray(<<>>)
    /\ response.status = 400

\* C3: when the store returns a non-null error, the response of execute-sql-new
\* has status 500 and its error is the store error's message, or its
\* error_description when the message is absent.
C3_StoreErrorAnsweredWith500 ==
    (route = "new" /\ Answered /\ reply.error.present)
    => /\ response.status = 500
       /\ response.error =
            Msg(IF Resolved(reply.error.message) THEN reply.error.message
                ELSE reply.error.error_description)

\* C4: whenever the execute step returns a non-null error, the response of
\* execute-sql-new carries an error field and neither data nor totalRows, for
\* plain and for aggregate projections, and no aggregation is computed.
C4_StoreErrorIsNeverPartialSuccess ==
    (route = "new" /\ Answered /\ reply.error.present)
    => /\ "error" \in response.keys
       /\ "data" \notin response.keys
       /\ "totalRows" \notin response.keys
       /\ \A i \in 1..Len(stages) : stages[i] # "aggregate"

\* The store failed on an aggregate query.
C4_Witness ==
    /\ route = "new"
    /\ Answered
    /\ reply.error.present
    /\ IsAggregate(statement)

\* Every check of execute-sql-new before the builder stage passed.
AllChecksPassed ==
    /\ SqlIsText
    /\ body.text # <<>>
    /\ IsSelectText(cleanSqlOf(body.text))
    /\ parserInput.called
    /\ statement.type = "select"
    /\ tableNameOf(statement.from) = PERMITTED_TABLE

\* C5: in a request to execute-sql-new the execute step is performed at most
\* once; when the response is reached it was performed exactly once if the
\* input check, the SELECT check, parsing, the statement-type check and the
\* table check all passed and not at all otherwise, a store error included.
C5_ExecuteAtMostOnce ==
    route = "new"
    => /\ ExecuteCount <= 1
       /\ Answered => (ExecuteCount = 1 <=> AllChecksPassed)
       /\ (Answered /\ reply.error.present) => ExecuteCount = 1

\* A request was answered after the store failed.
C5_Witness ==
    /\ route = "new"
    /\ Answered
    /\ reply.error.present
    /\ ExecuteCount = 1

\* C6: when the sql field of the body is missing, empty or no string, the
\* handler (of either route) answers 400 'SQL query is required' before the
\* sanitizer, the parser or the store is invoked.
C6_MissingSqlRejectedFirst ==
    (route \in {"new", "legacy"} /\ body.json
     /\ (body.type # "string" \/ body.text = <<>>))
    => /\ Answered
       /\ response = ErrorResponse(400, Msg(SQL_REQUIRED))
       /\ stages = <<"respond">>
       /\ ~parserInput.called
       /\ calls = <<>>

\* A body whose sql is the empty string was rejected.
C6_Witness ==
    /\ route = "new"
    /\ Answered
    /\ body = Body(TRUE, "string", <<>>)
    /\ response.status = 400

ParseFailed == parserInput.called /\ statement = NoStatement

\* C7: in every success response and every parse-failure response of
\* execute-sql-new, originalQuery is the sql of the request as received, with
\* its comments and surrounding whitespace.
C7_OriginalQueryIsTheInput ==
    (route = "new" /\ Answered /\ (response.status = 200 \/ ParseFailed))
    => /\ "originalQuery" \in response.keys
       /\ response.originalQuery = body.text

\* A query whose text the sanitizer changes was answered with success.
C7_Witness ==
    /\ route = "new"
    /\ Answered
    /\ response.status = 200
    /\ cleanSqlOf(body.text) # body.text
    /\ IsAggregate(statement)

\* C8: for a successful query without aggregates, totalRows is the number of
\* rows in data and data is the row sequence the store returned, in its order.
C8_PlainDataIsTheStoreData ==
    (route = "new" /\ Answered /\ response.status = 200 /\ ~IsAggregate(statement))
    => /\ response.totalRows = Len(response.data)
       /\ response.data = reply.data

\* A plain query returned two different rows.
C8_Witness ==
    /\ route = "new"
    /\ Answered
    /\ response.status = 200
    /\ ~IsAggregate(statement)
    /\ Len(response.data) = 2
    /\ response.data[1] # response.data[2]

\* The output keys of the aggregate entries of a projection.
AggregateKeys(list) ==
    {OutputKey(list[i]) : i \in {j \in 1..Len(list) : list[j].expr.type = "aggr_func"}}

\* The keys under which the other entries of a projection would be returned.
PlainKeys(list) ==
    {ItemKey(ColumnItem(list[i])) :
        i \in {j \in 1..Len(list) : list[j].expr.type # "aggr_func"}}

\* C9: if a projected column is an aggregate-function call, the projection of
\* the builder is exactly '*' whatever the other columns, and the success
\* response is one synthetic row (totalRows 1) that holds only aggregate
\* output keys: no plain column of the projection, no fetched row.
C9_AggregateBranchWins ==
    (route = "new" /\ pc \in {"awaiting", "done"} /\ IsAggregate(statement))
    => /\ SelectOp(calls, "select") = <<SelectCall(<<Star>>)>>
       /\ (Answered /\ response.status = 200)
          => /\ response.totalRows = 1
             /\ Len(response.data) = 1
             /\ DOMAIN response.data[1] \subseteq AggregateKeys(statement.columns.list)
             /\ DOMAIN response.data[1] \cap PlainKeys(statement.columns.list) = {}
             /\ \A i \in 1..Len(reply.data) : response.data[1] # reply.data[i]

\* A projection that mixes a plain column with an aggregate was answered over
\* a store that returned rows.
C9_Witness ==
    /\ route = "new"
    /\ Answered
    /\ response.status = 200
    /\ IsAggregate(statement)
    /\ \E i \in 1..Len(statement.columns.list) :
          statement.columns.list[i].expr.type = "column_ref"
    /\ Len(reply.data) > 0

\* The statement of SELECT COUNT(*) FROM players, with or without a predicate.
IsCountStarQuery ==
    /\ statement.type = "select"
    /\ statement.from = PlayersFrom
    /\ statement.columns = Columns(<<CountStar>>)
    /\ ~statement.orderby.present
    /\ ~statement.limit.present

\* C10 as stated: SELECT COUNT(*) FROM players returns exactly one row
\* { count: N }, N the number of rows the store returned for the plan.
C10_CountRowKeyedCount ==
    (route = "new" /\ Answered /\ response.status = 200 /\ IsCountStarQuery)
    => response.data = <<OneKeyRow("count", JsNum(Len(reply.data)))>>

\* C10 amended: SELECT COUNT(*) FROM players (no alias) returns exactly one row
\* { count_value: N }, N the number of rows the store returned for the plan,
\* which is the number of rows of the table when the predicate is absent or
\* not translated.
C10_CountRowKeyedCountValue ==
    (route = "new" /\ Answered /\ response.status = 200 /\ IsCountStarQuery)
    => /\ response.data = <<OneKeyRow("count_value", JsNum(Len(reply.data)))>>
       /\ response.totalRows = 1
       /\ FiltersOf(calls) = <<>> => Len(reply.data) = Len(table)

\* COUNT(*) was answered over a table of two rows with a predicate that is not
\* translated.
C10_Witness ==
    /\ route = "new"
    /\ Answered
    /\ response.status = 200
    /\ IsCountStarQuery
    /\ statement.where = AgeIs25
    /\ Len(table) = 2

\* A successful response of execute-sql-new to an aggregate query.
AggregateAnswered ==
    route = "new" /\ Answered /\ response.status = 200 /\ IsAggregate(statement)

\* The entries of the projection that call the aggregate function f on a
\* column of the table and whose output key no later entry has.
EntriesOf(f) ==
    LET list == statement.columns.list
    IN  {i \in 1..Len(list) :
            /\ list[i].expr.type = "aggr_func"
            /\ LowerName(list[i].expr.name) = f
            /\ list[i].expr.argColumn \in TableColumns
            /\ \A j \in (i + 1)..Len(list) : OutputKey(list[j]) # OutputKey(list[i])}

\* The non-null values (integers in the tables of this model) that the rows
\* hold in column c.
NonNullInts(rows, c) ==
    LET kept == SelectSeq(rows, LAMBDA r : r[c] # JsNull)
    IN  [i \in 1..Len(kept) |-> kept[i][c].n]

RECURSIVE SumOf(_)
SumOf(ints) == IF ints = <<>> THEN 0 ELSE Head(ints) + SumOf(Tail(ints))

\* C11: the value of AVG(col) is the sum of the non-null values of col divided
\* by their number, rounded to 2 decimal places (a multiple of 1/100 at most
\* 1/200 away from the quotient), and 0 when no row has a non-null value.  It
\* is determined by the rows of the store and the query alone, so the same
\* query over an unchanged store yields the same value.
C11_AvgIsRoundedMean ==
    AggregateAnswered =>
        \A i \in EntriesOf("avg") :
            LET col == statement.columns.list[i]
                vals == NonNullInts(table, col.expr.argColumn)
                k == Len(vals)
            IN  /\ OutputKey(col) \in DOMAIN response.data[1]
                /\ LET v == response.data[1][OutputKey(col)]
                   IN  IF k = 0 THEN v = JsNum(0)
                       ELSE /\ v.t = "number"
                            /\ v.s = ""
                            /\ 100 % v.d = 0
                            /\ (200 * SumOf(vals) - 2 * k * v.n * (100 \div v.d))
                                  \in (0 - k)..k

\* An AVG whose quotient has more than two decimal places was answered.
C11_Witness ==
    /\ AggregateAnswered
    /\ \E i \in EntriesOf("avg") :
          LET vals == NonNullInts(table, statement.columns.list[i].expr.argColumn)
          IN  Len(vals) > 0 /\ (100 * SumOf(vals)) % Len(vals) # 0

\* C12: the value of SUM(col) is the unrounded sum of exactly the non-null
\* values of col in the fetched rows, and 0 when there is no such value.
C12_SumIsSumOfNonNull ==
    AggregateAnswered =>
        \A i \in EntriesOf("sum") :
            LET col == statement.columns.list[i]
            IN  /\ reply.data = table
                /\ OutputKey(col) \in DOMAIN response.data[1]
                /\ response.data[1][OutputKey(col)]
                     = JsNum(SumOf(NonNullInts(reply.data, col.expr.argColumn)))

\* A SUM was answered over rows of which one holds null and two hold a value.
C12_Witness ==
    /\ AggregateAnswered
    /\ \E i \in EntriesOf("sum") :
          /\ Len(NonNullInts(reply.data, statement.columns.list[i].expr.argColumn)) = 2
          /\ Len(reply.data) = 3

\* Whether v is the integer x, x occurs in ints, and no element of ints is
\* beyond x in the direction given (upward for a maximum).
IsExtremum(v, ints, upward) ==
    /\ v.t = "number" /\ v.s = "" /\ v.d = 1
    /\ \E j \in 1..Len(ints) : ints[j] = v.n
    /\ \A j \in 1..Len(ints) : IF upward THEN ints[j] <= v.n ELSE ints[j] >= v.n

\* C13: over fetched rows with a non-null value of col, MAX(col) / MIN(col) is
\* a value occurring in col that is >= / <= every non-null value of col, the
\* nulls having no influence; with no non-null value the result is a
\* non-finite number, not a value of the column.
C13_ExtremumOfNonNull ==
    AggregateAnswered =>
        \A f \in {"max", "min"} : \A i \in EntriesOf(f) :
            LET col == statement.columns.list[i]
                vals == NonNullInts(reply.data, col.expr.argColumn)
            IN  /\ OutputKey(col) \in DOMAIN response.data[1]
                /\ LET v == response.data[1][OutputKey(col)]
                   IN  IF vals # <<>> THEN IsExtremum(v, vals, f = "max")
                       ELSE v.t = "number" /\ v.s \in {"Infinity", "-Infinity"}

\* A MIN was answered over rows that hold a null and two different values.
C13_Witness ==
    /\ AggregateAnswered
    /\ Len(reply.data) = 3
    /\ \E i \in EntriesOf("min") :
          LET vals == NonNullInts(reply.data, statement.columns.list[i].expr.argColumn)
          IN  Len(vals) = 2 /\ vals[1] # vals[2]

\* C14: the row of an aggregate response holds, for each requested aggregate
\* column (COUNT, SUM, AVG, MAX or MIN), an entry under the column's output
\* key whose value is what that aggregate computes alone over the same fetched
\* rows: none is missing and none changes another's value.
C14_EveryAggregateInTheRow ==
    AggregateAnswered =>
        \A i \in 1..Len(statement.columns.list) :
            LET col == statement.columns.list[i]
                alone == processAggregations(<<col>>, reply.data)
            IN  (/\ col.expr.type = "aggr_func"
                 /\ LowerName(col.expr.name) \in {"count", "sum", "avg", "max", "min"})
                => /\ OutputKey(col) \in DOMAIN response.data[1]
                   /\ OutputKey(col) \in DOMAIN alone
                   /\ response.data[1][OutputKey(col)] = alone[OutputKey(col)]

\* The entries of the projection that call AVG, SUM, MAX or MIN with a target
\* column that the AST does not give, and whose output key no later entry has.
UnresolvedEntries ==
    LET list == statement.columns.list
    IN  {i \in 1..Len(list) :
            /\ list[i].expr.type = "aggr_func"
            /\ LowerName(list[i].expr.name) \in {"avg", "sum", "max", "min"}
            /\ list[i].expr.argColumn \in {Undef, ""}
            /\ \A j \in (i + 1)..Len(list) : OutputKey(list[j]) # OutputKey(list[i])}

Diagnostic(f) ==
    CASE f = "avg" -> "AVG function detected - column not found"
      [] f = "sum" -> "SUM function detected - column not found"
      [] f = "max" -> "MAX function detected - column not found"
      [] f = "min" -> "MIN function detected - column not found"

\* C15: when the target column of an AVG, SUM, MAX or MIN cannot be resolved
\* from the AST, the value of that aggregate in the result row is the text
\* '<FUNC> function detected - column not found', the other aggregates are
\* still computed, and the request succeeds with a one-row response.
C15_UnresolvedColumnGivesDiagnostic ==
    (/\ route = "new" /\ Answered /\ ~reply.error.present
     /\ IsAggregate(statement) /\ UnresolvedEntries # {})
    => /\ response.status = 200
       /\ response.totalRows = 1
       /\ Len(response.data) = 1
       /\ \A i \in UnresolvedEntries :
             LET col == statement.columns.list[i]
             IN  /\ OutputKey(col) \in DOMAIN response.data[1]
                 /\ response.data[1][OutputKey(col)]
                      = JsStr(Diagnostic(LowerName(col.expr.name)))
       /\ \A i \in EntriesOf("avg") \cup EntriesOf("sum") :
             LET col == statement.columns.list[i]
             IN  /\ OutputKey(col) \in DOMAIN response.data[1]
                 /\ response.data[1][OutputKey(col)].t = "number"
       /\ \A i \in 1..Len(statement.columns.list) :
             (statement.columns.list[i] = CountStar
              /\ \A j \in (i + 1)..Len(statement.columns.list) :
                    OutputKey(statement.columns.list[j]) # "count_value")
             => response.data[1]["count_value"] = JsNum(Len(reply.data))

\* An aggregate without a resolved column was answered together with COUNT(*)
\* over a store that returned rows.
C15_Witness ==
    /\ route = "new"
    /\ Answered
    /\ response.status = 200
    /\ IsAggregate(statement)
    /\ UnresolvedEntries # {}
    /\ \E i \in 1..Len(statement.columns.list) : statement.columns.list[i] = CountStar
    /\ Len(reply.data) > 0

\* execute-sql-new has built its plan for the statement.
PlanBuilt == route = "new" /\ AllChecksPassed /\ pc \in {"awaiting", "done"}

\* The filter call that the table of supported predicate shapes assigns to the
\* expression w, as a set: empty for a shape outside the table.  A null check
\* is an expression with the operator IS or IS NOT, a column on the left and
\* the literal NULL on the right, as a binary expression or as a function
\* with these two arguments.
TableRow(w) ==
    LET Filter(op, column, value) == Call(op, column, value, TRUE, <<>>)
    IN  IF w.type = "binary_expr" /\ w.left.type = "column_ref"
        THEN IF w.operator \in {"=", "!="}
                /\ w.right.type \in {"string", "single_quote_string"}
             THEN {Filter(IF w.operator = "=" THEN "eq" ELSE "neq",
                          w.left.column, w.right.value)}
             ELSE IF w.operator \in {">", ">=", "<", "<="} /\ w.right.type = "number"
             THEN {Filter(CASE w.operator = ">" -> "gt" [] w.operator = ">=" -> "gte"
                            [] w.operator = "<" -> "lt" [] OTHER -> "lte",
                          w.left.column, w.right.value)}
             ELSE IF w.operator \in {"IS", "IS NOT"} /\ w.right.type = "null"
             THEN {Filter(IF w.operator = "IS" THEN "is" ELSE "not",
                          w.left.column, JsNull)}
             ELSE {}
        ELSE IF /\ w.type = "function"
                /\ w.name \in {"IS", "IS NOT"}
                /\ Len(w.args) >= 2
                /\ w.args[1].type = "column_ref"
                /\ w.args[2].value = JsStr("NULL")
        THEN {Filter(IF w.name = "IS" THEN "is" ELSE "not", w.args[1].column, JsNull)}
        ELSE {}

\* C16: for every WHERE expression in a shape of the table, exactly one filter
\* call is issued to the builder and it is the one the table assigns: eq / neq
\* for = / != with a column and a string literal, gt / gte / lt / lte for
\* > / >= / < / <= with a column and a numeric literal, is(column, null) /
\* not(column, 'is', null) for IS NULL / IS NOT NULL on a column; the call
\* carries the column name and the literal's value.
C16_TableShapeGivesItsFilter ==
    (PlanBuilt /\ statement.where.present /\ TableRow(statement.where) # {})
    => \E c \in TableRow(statement.where) : FiltersOf(calls) = <<c>>

\* C17: for every WHERE expression outside the table (numeric equality, a
\* range comparison with a string, AND / OR, nested expressions, LIKE, IN, a
\* left operand that is no column) no filter call is added to the builder,
\* the plan is executed once, and when the store answers without error the
\* response is a success; without ORDER BY and LIMIT it holds every row of
\* the table.
C17_OtherShapeIsDropped ==
    (PlanBuilt /\ statement.where.present /\ TableRow(statement.where) = {})
    => /\ FiltersOf(calls) = <<>>
       /\ ExecuteCount = 1
       /\ (Answered /\ ~reply.error.present)
          => /\ response.status = 200
             /\ (~statement.orderby.present /\ ~statement.limit.present)
                => response.data = table

\* A numeric equality that no row satisfies was answered with every row.
C17_Witness ==
    /\ PlanBuilt
    /\ Answered
    /\ statement.where = AgeIs25
    /\ ~statement.orderby.present
    /\ response.status = 200
    /\ Len(response.data) = MaxRows
    /\ \A i \in 1..Len(table) : table[i].age # JsNum(25)

\* C18: for a statement with k ORDER BY entries exactly k order directives are
\* issued to the builder, in the sequence of the entries, each with the
\* entry's column name, and with ascending = false if and only if the entry's
\* marker is DESC (ascending = true for ASC and for an absent marker).
C18_OneDirectivePerOrderEntry ==
    (PlanBuilt /\ statement.orderby.present)
    => LET entries == statement.orderby.list
           issued == SelectOp(calls, "order")
       IN  /\ Len(issued) = Len(entries)
           /\ \A i \in 1..Len(entries) :
                 /\ issued[i].column = entries[i].column
                 /\ issued[i].ascending = (entries[i].type # "DESC")
                 /\ entries[i].type \in {"ASC", Undef} => issued[i].ascending

\* Two entries, the first descending and the second without a marker, were
\* turned into directives and the store answered with two rows.
C18_Witness ==
    /\ PlanBuilt
    /\ Answered
    /\ statement.orderby.present
    /\ Len(statement.orderby.list) = 2
    /\ statement.orderby.list[1].type = "DESC"
    /\ statement.orderby.list[2].type = Undef
    /\ response.status = 200
    /\ Len(response.data) = 2

\* The non-negative integer that the limit clause l holds in one of the three
\* encodings (the bare number, a sequence whose first element carries it as
\* its value, an object that carries it as its value), as a set: empty when
\* the clause matches none of them.
EncodedLimit(l) ==
    LET v == IF l.shape = "array"
             THEN IF l.items = <<>> THEN JsUndef ELSE l.items[1]
             ELSE l.v
    IN  IF l.present /\ v.t = "number" /\ v.s = "" /\ v.d = 1 /\ v.n >= 0
        THEN {v.n}
        ELSE {}

\* C19: for every non-negative integer n, a limit given as the bare number n,
\* as the one-element sequence [{ value: n }] or as the object { value: n }
\* is normalised to n, and limit(n) is the one limit directive the builder
\* receives.
C19_EncodedLimitReachesTheBuilder ==
    (PlanBuilt /\ statement.limit.present
     /\ (statement.limit.shape = "array" => Len(statement.limit.items) = 1))
    => \A n \in EncodedLimit(statement.limit) :
          SelectOp(calls, "limit") = <<Call("limit", "", JsNum(n), TRUE, <<>>)>>

\* C20: a limit clause that matches none of the three encodings gives the
\* builder limit(10), and the request is executed and, when the store does
\* not fail, answered with a success instead of being rejected; a statement
\* without a limit clause gives the builder no limit directive.
C20_UnmatchedLimitFallsBackToTen ==
    PlanBuilt
    => /\ ~statement.limit.present => SelectOp(calls, "limit") = <<>>
       /\ (statement.limit.present /\ EncodedLimit(statement.limit) = {})
          => /\ SelectOp(calls, "limit")
                  = <<Call("limit", "", JsNum(10), TRUE, <<>>)>>
             /\ ExecuteCount = 1
             /\ (Answered /\ reply.error # StoreError(FALSE, TRANSPORT_FAILURE, Undef))
                => response.status = 200

\* The row satisfies the predicate that the filter call c stands for.  The
\* numbers of the tables are integers.
Satisfies(row, c) ==
    LET x == row[c.column]
    IN  CASE c.op = "eq" -> x = c.value
          [] c.op = "neq" -> x # JsNull /\ x # c.value
          [] c.op = "gt" -> x # JsNull /\ x.n > c.value.n
          [] c.op = "gte" -> x # JsNull /\ x.n >= c.value.n
          [] c.op = "lt" -> x # JsNull /\ x.n < c.value.n
          [] c.op = "lte" -> x # JsNull /\ x.n <= c.value.n
          [] c.op = "is" -> x = JsNull
          [] OTHER -> x # JsNull

\* The position of a value of the tables among the values of its column.
RankOf(v) == IF v.t = "string" THEN (IF v.s = "Bulls" THEN 0 ELSE 1) ELSE v.n

\* C21: against a store that filters, sorts and limits as asked, a query with
\* a predicate of the table, ORDER BY col and LIMIT n is answered with at most
\* n rows, each satisfying the predicate, in ascending order of col; a query
\* with an equality predicate and no limit is answered with exactly the rows
\* of the table that match.
C21_FilteredSortedLimited ==
    (PlanBuilt /\ Answered /\ response.status = 200 /\ ~IsAggregate(statement)
     /\ statement.where.present /\ TableRow(statement.where) # {})
    => \A c \in TableRow(statement.where) :
          /\ (/\ statement.orderby.present
              /\ Len(statement.orderby.list) = 1
              /\ statement.orderby.list[1].type # "DESC"
              /\ statement.limit.present)
             => LET col == statement.orderby.list[1].column
                    rows == response.data
                IN  /\ \A n \in EncodedLimit(statement.limit) : Len(rows) <= n
                    /\ \A i \in 1..Len(rows) : Satisfies(rows[i], c)
                    /\ \A i \in 1..(Len(rows) - 1) :
                          RankOf(rows[i][col]) <= RankOf(rows[i + 1][col])
          /\ (c.op = "eq" /\ ~statement.limit.present /\ ~statement.orderby.present)
             => response.data = SelectSeq(table, LAMBDA r : Satisfies(r, c))

\* The projection list for the entries of a projection without aggregates:
\* '<column> as <alias>' for an aliased column, '<column>' for a plain one,
\* nothing for an entry of another shape.
RECURSIVE ListedItems(_)
ListedItems(list) ==
    IF list = <<>> THEN <<>>
    ELSE (IF Head(list).expr.type = "column_ref"
          THEN <<Item(Head(list).expr.column, Head(list).as)>>
          ELSE <<>>) \o ListedItems(Tail(list))

\* C22: for a projection without aggregates the projection handed to the
\* store lists, in statement order, '<column> as <alias>' for each aliased
\* entry and '<column>' for each plain column reference; an entry of any
\* other shape (function call, literal, computed expression), aliased or not,
\* is dropped; an empty list is replaced by '*'.
C22_OnlyColumnsAreProjected ==
    (PlanBuilt /\ statement.columns.present /\ ~IsAggregate(statement))
    => LET listed == ListedItems(statement.columns.list)
       IN  SelectOp(calls, "select")
             = <<Call("select", "", JsUndef, TRUE,
                      IF listed = <<>> THEN <<Item("*", Undef)>> ELSE listed)>>

\* C23: when the parser yields several statements only the first is
\* validated and translated: the type check, the table check and every
\* builder call derive from statement one, and no store call derives from a
\* later statement, whatever its type or table.
C23_OnlyTheFirstStatementCounts ==
    (route = "new" /\ parserInput.called /\ parserInput.answer.ok
     /\ parserInput.answer.isArray /\ Len(parserInput.answer.stmts) > 1)
    => LET first == parserInput.answer.stmts[1]
       IN  /\ statement = first
           /\ IF first.type # "select"
              THEN /\ calls = <<>>
                   /\ response = ErrorResponse(400, Msg(ONLY_SELECT))
              ELSE IF tableNameOf(first.from) # PERMITTED_TABLE
              THEN /\ calls = <<>>
                   /\ response = ErrorResponse(400, Msg(ONLY_PLAYERS))
              ELSE /\ calls = BuildPlan(first)
                   /\ (Answered /\ ~reply.error.present)
                      => /\ response.status = 200
                         /\ IsAggregate(first) = (response.data # reply.data)

\* A SELECT on players followed by a statement of another type, projection
\* or table was answered from the first statement alone.
C23_Witness ==
    /\ route = "new"
    /\ Answered
    /\ parserInput.called
    /\ parserInput.answer.isArray
    /\ Len(parserInput.answer.stmts) = 2
    /\ parserInput.answer.stmts[2] # parserInput.answer.stmts[1]
    /\ parserInput.answer.stmts[1] = SelectStar(PlayersFrom)
    /\ response.status = 200
    /\ response.data = table

\* The text without its comments, read from left to right as SQL is: two
\* dashes open a comment that ends before the next line terminator, and the
\* two characters that open a block comment, when the two that close it
\* follow somewhere, open a comment that ends with the first such pair.
RECURSIVE WithoutComments(_)
WithoutComments(s) ==
    LET Pair(i, a, b) == i + 1 <= Len(s) /\ s[i] = a /\ s[i + 1] = b
        Min(S) == CHOOSE x \in S : \A y \in S : x <= y
        Closes(i) == {j \in (i + 2)..Len(s) : Pair(j, "*", "/")}
        starts == {i \in 1..Len(s) :
                     Pair(i, "-", "-") \/ (Pair(i, "/", "*") /\ Closes(i) # {})}
        first == Min(starts)
        ends == {j \in first..Len(s) : s[j] = "\n"}
        rest == IF s[first] = "-"
                THEN IF ends = {} THEN <<>> ELSE SubSeq(s, Min(ends), Len(s))
                ELSE SubSeq(s, Min(Closes(first)) + 2, Len(s))
    IN  IF starts = {} THEN s
        ELSE SubSeq(s, 1, first - 1) \o WithoutComments(rest)

\* The text without the white space at its two ends.
RECURSIVE Trimmed(_)
Trimmed(s) ==
    IF s = <<>> THEN <<>>
    ELSE IF IsSpace(Head(s)) THEN Trimmed(Tail(s))
    ELSE IF IsSpace(s[Len(s)]) THEN Trimmed(SubSeq(s, 1, Len(s) - 1))
    ELSE s

\* C24: the text handed to the parser is the request text with every line
\* comment (two dashes to the end of the line) and every block comment
\* removed and then trimmed, and the SELECT check is made on that text: a
\* text whose comments precede a SELECT statement is accepted, and a text of
\* comments and white space only is rejected with 400.
C24_ParserGetsTheTextWithoutComments ==
    (route = "new" /\ SqlIsText /\ body.text # <<>>)
    => LET clean == Trimmed(WithoutComments(body.text))
       IN  /\ parserInput.called => parserInput.text = clean
           /\ IsSelectText(clean) => parserInput.called
           /\ clean = <<>>
              => /\ Answered
                 /\ response.status = 400
                 /\ ~parserInput.called

\* The place of a builder call in the fixed order of the calls.
PhaseOf(c) ==
    CASE c.op = "from" -> 1
      [] c.op = "select" -> 2
      [] c.op \in {"eq", "neq", "gt", "gte", "lt", "lte", "is", "not"} -> 3
      [] c.op = "order" -> 4
      [] c.op = "limit" -> 5
      [] c.op = "execute" -> 6
      [] OTHER -> 0

\* C27: in every request that reaches the builder stage the builder calls
\* are from('players'), then exactly one select, then at most one filter,
\* then the order directives, then at most one limit, then the execute step;
\* the aggregation runs only after the execute step, and no builder call
\* follows the execute step.
C27_BuilderCallsInFixedOrder ==
    PlanBuilt
    => LET Count(p) == Cardinality({i \in 1..Len(calls) : PhaseOf(calls[i]) = p})
           Place(stage) == {i \in 1..Len(stages) : stages[i] = stage}
       IN  /\ \A i \in 1..Len(calls) : PhaseOf(calls[i]) # 0
           /\ \A i \in 1..(Len(calls) - 1) : PhaseOf(calls[i]) <= PhaseOf(calls[i + 1])
           /\ calls[1].column = "players"
           /\ Count(1) = 1
           /\ Count(2) = 1
           /\ Count(3) <= 1
           /\ Count(4) = (IF statement.orderby.present
                          THEN Len(statement.orderby.list) ELSE 0)
           /\ Count(5) <= 1
           /\ Count(6) = 1
           /\ \A a \in Place("aggregate") :
                 /\ pc = "done"
                 /\ \E e \in Place("execute") : e < a

\* A plan with a filter and a limit was executed and its rows aggregated.
C27_Witness ==
    /\ PlanBuilt
    /\ Answered
    /\ response.status = 200
    /\ IsAggregate(statement)
    /\ Len(FiltersOf(calls)) = 1
    /\ Len(SelectOp(calls, "limit")) = 1
    /\ Len(calls) = 5

\* C28: for an aggregate query that carries LIMIT n every aggregate (COUNT(*),
\* SUM, AVG, MAX, MIN) is computed over all rows that satisfy the predicate,
\* so its value is the one the query has without the LIMIT clause.
C28_LimitLeavesAggregatesAlone ==
    (PlanBuilt /\ Answered /\ response.status = 200 /\ IsAggregate(statement)
     /\ statement.limit.present)
    => LET filters == IF statement.where.present
                      THEN TableRow(statement.where) ELSE {}
           rows == SelectSeq(table, LAMBDA r : \A c \in filters : Satisfies(r, c))
       IN  response.data = <<processAggregations(statement.columns.list, rows)>>

\* C25: GET schema always answers with a body { tables: [...] } and never
\* with an error: when the rpc returns an error or the call throws, the
\* tables are the schema written into the handler, one table named
\* 'players'; when the rpc succeeds, they are the rpc's data, or an empty
\* list if the data is null.
C25_SchemaAlwaysAnswersTables ==
    (route = "schema" /\ Answered)
    => /\ response.status = 200
       /\ response.keys = {"tables"}
       /\ IF reply.error.present \/ \E i \in 1..Len(stages) : stages[i] = "catch"
          THEN /\ Len(response.data) = 1
               /\ response.data[1].name = "players"
               /\ Len(response.data[1].columns) = 17
          ELSE response.data = (IF reply.dataNull THEN <<>> ELSE reply.data)

\* The rpc came back with an error and the caller received the one table.
C25_Witness ==
    /\ route = "schema"
    /\ Answered
    /\ reply.error.present
    /\ response.status = 200
    /\ Len(response.data) = 1

\* C26: under any interleaving of requests to execute-sql-new against an
\* unchanged table, every request, running or suspended, holds the statement
\* and the plan that its own body and its own parse give when it runs alone,
\* and its response is the one composed from the store's answer to its own
\* plan; nothing of it comes from another request.
C26_RequestsAreIndependent ==
    LET alone(c) == PostSync(c.body, c.parserInput.answer)
        Independent(c) ==
            (c.route = "new")
            => /\ c.statement = alone(c).statement
               /\ c.calls = alone(c).calls
               /\ c.parserInput = alone(c).parserInput
               /\ alone(c).pc = "done"
                  => c.pc = "done" /\ c.response = alone(c).response
               /\ (alone(c).pc = "awaiting" /\ c.pc = "done")
                  => /\ c.reply \in StoreReplies(table, alone(c).calls)
                     /\ c.response = ComposeResponse(alone(c).statement, c.reply,
                                                     c.body.text)
    IN  /\ Independent([route |-> route, pc |-> pc, body |-> body,
                        parserInput |-> parserInput, statement |-> statement,
                        calls |-> calls, reply |-> reply, response |-> response])
        /\ \A i \in 1..Len(inFlight) : Independent(inFlight[i])

\* A request has its rows while another, with another plan, waits for the
\* store.
C26_Witness ==
    /\ route = "new"
    /\ pc = "done"
    /\ response.status = 200
    /\ Len(inFlight) >= 1
    /\ inFlight[1].route = "new"
    /\ inFlight[1].pc = "awaiting"
    /\ inFlight[1].calls # calls
    /\ inFlight[1].body # body

\* C29: in the SQL editor the response of an earlier suggestion fetch never
\* replaces the suggestions of a later fetch, and at most one debounce timer
\* is pending.
C29_SuggestionsOfTheLatestFetch ==
    /\ [][editor'.aiSuggestions.fetch >= editor.aiSuggestions.fetch]_vars
    /\ [](Cardinality(editor.timers) <= 1)

\* C30: in the AI chat at most one request is awaited, isTyping is set exactly
\* while it is awaited, and the messages of the user and of the assistant
\* alternate.
C30_OneChatRequestAtATime ==
    /\ Cardinality(chat.pending) <= 1
    /\ chat.isTyping <=> chat.pending # {}
    /\ \A i \in 1..(Len(chat.messages) - 1) :
          chat.messages[i].type # chat.messages[i + 1].type

====
